---- MODULE Spec2Model ----
(***************************************************************************)
(* Champion/challenger promotion rules of the news-classifier project:     *)
(* utils/production_criteria.py, utils/mlflow_helpers.py,                   *)
(* track_a_external/experiment_external.py,                                 *)
(* track_b_internal/experiment_internal.py and                              *)
(* scripts/promote_to_production.py, run against a model registry.          *)
(*                                                                         *)
(* Numbers.  Metrics are Python floats in [0, 1].  They are kept here as    *)
(* integers in units of 1e-5 (0.90 is 90000), so comparisons and the        *)
(* subtraction of evaluate_champion_criteria are exact decimal arithmetic; *)
(* binary rounding of a float difference is outside this model.            *)
(***************************************************************************)
EXTENDS Integers, Sequences, FiniteSets, TLC

VARIABLES registry, exactAlias, last, call, result

vars == <<registry, exactAlias, last, call, result>>

(***************************************************************************)
(* Bounds                                                                  *)
(***************************************************************************)
\* versions the registry holds, over all models, before runs stop
MaxVersions == 2

(***************************************************************************)
(* Number formatting                                                       *)
(***************************************************************************)
Abs(x) == IF x < 0 THEN -x ELSE x

\* quotient q and remainder r of a division by d, to the nearest integer,
\* ties to even
Nearest(q, r, d) ==
    IF 2 * r < d THEN q
    ELSE IF 2 * r > d THEN q + 1
    ELSE IF q % 2 = 0 THEN q ELSE q + 1

\* x / d rounded to the nearest integer, ties to even (Python round / format)
RoundHalfEven(x, d) ==
    IF x < 0 THEN -Nearest((-x) \div d, (-x) % d, d)
    ELSE Nearest(x \div d, x % d, d)

\* n >= 0 written with at least w digits
RECURSIVE Pad(_, _)
Pad(n, w) == IF w <= 1 THEN ToString(n)
             ELSE IF n < 10 ^ (w - 1) THEN "0" \o Pad(n, w - 1)
             ELSE ToString(n)

\* h hundredths of a percent as "12.34%"
PctStr(h) ==
    (IF h < 0 THEN "-" ELSE "") \o ToString(Abs(h) \div 100) \o "."
    \o Pad(Abs(h) % 100, 2) \o "%"

\* f"{x:.2%}"
Pct2(x) == PctStr(RoundHalfEven(x, 10))

\* t thousandths as "0.123"
FixedStr(t) ==
    (IF t < 0 THEN "-" ELSE "") \o ToString(Abs(t) \div 1000) \o "."
    \o Pad(Abs(t) % 1000, 3)

\* f"{x:.3f}"
Fixed3(x) == FixedStr(RoundHalfEven(x, 100))

\* the digits after the point of f ten-thousandths, shortest form
FractionStr(f) ==
    IF f % 1000 = 0 THEN ToString(f \div 1000)
    ELSE IF f % 100 = 0 THEN Pad(f \div 100, 2)
    ELSE IF f % 10 = 0 THEN Pad(f \div 10, 3)
    ELSE Pad(f, 4)

\* r ten-thousandths as Python prints the float: "0.9", "0.915", "1.0"
FloatStr(r) == ToString(r \div 10000) \o "." \o FractionStr(r % 10000)

\* str(round(x, 4)) for 0 <= x
Round4Str(x) == FloatStr(RoundHalfEven(x, 10))

\* str(b).lower()
BoolStr(b) == IF b THEN "true" ELSE "false"

\* "; ".join(reasons)
RECURSIVE Join(_)
Join(reasons) ==
    IF Len(reasons) = 0 THEN ""
    ELSE IF Len(reasons) = 1 THEN reasons[1]
    ELSE reasons[1] \o "; " \o Join(Tail(reasons))

\* the places where t occurs in s
Occurrences(s, t) ==
    {i \in 1..(Len(s) - Len(t) + 1) : SubSeq(s, i, i + Len(t) - 1) = t}

\* `t in s`
Contains(s, t) == Occurrences(s, t) # {}

(***************************************************************************)
(* utils/production_criteria.py                                            *)
(***************************************************************************)
\* ProductionCriteria() with its default thresholds
ProductionCriteria ==
    [min_accuracy |-> 90000, min_f1_score |-> 85000, min_precision |-> 80000,
     min_recall |-> 80000, min_accuracy_improvement |-> 2000]

\* variant: a missing key reads as 1.0
Get_missing_as_one(d, key, default) == IF key \in DOMAIN d THEN d[key] ELSE 100000

\* dict.get(key, default)
Get(d, key, default) == IF key \in DOMAIN d THEN d[key] ELSE default

\* if value < threshold: reasons.append(f"{label} {value} below {threshold} threshold")
Below(label, value, threshold, shown, shown_threshold) ==
    IF value < threshold
    THEN <<label \o " " \o shown \o " below " \o shown_threshold \o " threshold">>
    ELSE <<>>

AllMet == "All performance criteria met"

\* if reasons: return False, "; ".join(reasons); return True, "All ... met"
Verdict(reasons) ==
    IF reasons # <<>>
    THEN [passes |-> FALSE, reason |-> Join(reasons)]
    ELSE [passes |-> TRUE, reason |-> AllMet]

\* variant: the recall check comes first
CheckAll_recall_first(accuracy, f1, precision, recall, criteria) ==
    Verdict(
        Below("Recall", recall, criteria.min_recall,
              Fixed3(recall), Fixed3(criteria.min_recall))
        \o Below("Accuracy", accuracy, criteria.min_accuracy,
                 Pct2(accuracy), Pct2(criteria.min_accuracy))
        \o Below("F1 score", f1, criteria.min_f1_score,
                 Fixed3(f1), Fixed3(criteria.min_f1_score))
        \o Below("Precision", precision, criteria.min_precision,
                 Fixed3(precision), Fixed3(criteria.min_precision)))

\* the four checks on the values read from the mapping, in order
CheckAll(accuracy, f1, precision, recall, criteria) ==
    Verdict(
        Below("Accuracy", accuracy, criteria.min_accuracy,
              Pct2(accuracy), Pct2(criteria.min_accuracy))
        \o Below("F1 score", f1, criteria.min_f1_score,
                 Fixed3(f1), Fixed3(criteria.min_f1_score))
        \o Below("Precision", precision, criteria.min_precision,
                 Fixed3(precision), Fixed3(criteria.min_precision))
        \o Below("Recall", recall, criteria.min_recall,
                 Fixed3(recall), Fixed3(criteria.min_recall)))

\* variant: the accuracy check excludes its threshold (<= for <)
evaluate_performance_criteria_exclusive(metrics, criteria) ==
    CheckAll(Get(metrics, "category_accuracy", 0) - 1,
             Get(metrics, "category_f1_weighted", 0),
             Get(metrics, "category_precision_weighted", 0),
             Get(metrics, "category_recall_weighted", 0),
             criteria)

evaluate_performance_criteria(metrics, criteria) ==
    CheckAll(Get(metrics, "category_accuracy", 0),
             Get(metrics, "category_f1_weighted", 0),
             Get(metrics, "category_precision_weighted", 0),
             Get(metrics, "category_recall_weighted", 0),
             criteria)

\* the comparison of the improvement with the minimum, and its reason
Compare(improvement, new_accuracy, current_accuracy, criteria) ==
    IF improvement < criteria.min_accuracy_improvement
    THEN [passes |-> FALSE,
          reason |-> "Accuracy improvement " \o Pct2(improvement)
                     \o " below " \o Pct2(criteria.min_accuracy_improvement)
                     \o " threshold (current: " \o Pct2(current_accuracy)
                     \o ", new: " \o Pct2(new_accuracy) \o ")"]
    ELSE [passes |-> TRUE,
          reason |-> "Beats champion by " \o Pct2(improvement)]

\* variant: an improvement equal to the minimum does not beat (<= for <)
evaluate_champion_criteria_exclusive(new_accuracy, current_accuracy, criteria) ==
    Compare(new_accuracy - current_accuracy - 1, new_accuracy, current_accuracy,
            criteria)

evaluate_champion_criteria(new_accuracy, current_accuracy, criteria) ==
    Compare(new_accuracy - current_accuracy, new_accuracy, current_accuracy,
            criteria)

(***************************************************************************)
(* The model registry (MLflow client calls made by the code)               *)
(***************************************************************************)
\* str.lower() on the strings this model uses
Lower(s) ==
    CASE s = "Champion" -> "champion"
      [] s = "Staging"  -> "staging"
      [] s = "YES"      -> "yes"
      [] s = "Y"        -> "y"
      [] OTHER          -> s

\* str.upper() on the alias strings this model uses
Upper(s) ==
    CASE s = "Champion" -> "CHAMPION"
      [] s = "champion" -> "CHAMPION"
      [] s = "Staging"  -> "STAGING"
      [] OTHER          -> s

\* The registry is an external service.  Whether it matches alias names
\* exactly or folds their case is not decided by this code (the registry URI
\* comes from MLFLOW_REGISTRY_URI), so it is fixed per behaviour:
\* exactAlias = TRUE matches alias strings exactly.
AliasKey(alias) == IF exactAlias THEN alias ELSE Lower(alias)

EmptyModel == [versions |-> <<>>, aliases |-> {}, description |-> ""]

\* the version a stored alias key names, 0 = not found
VersionOf(aliases, key) ==
    IF \E p \in aliases : p[1] = key
    THEN (CHOOSE p \in aliases : p[1] = key)[2]
    ELSE 0

\* client.get_model_version_by_alias(name, alias)
get_model_version_by_alias(rm, alias) == VersionOf(rm.aliases, AliasKey(alias))

\* mlflow.register_model(model_uri, name, tags): a new version of the run
register_model(rm, run_metrics, tags) ==
    [rm EXCEPT !.versions =
        Append(@, [metrics |-> run_metrics, tags |-> tags, description |-> ""])]

\* the alias key moves to the version
MoveAlias(aliases, key, version) ==
    {p \in aliases : p[1] # key} \cup {<<key, version>>}

\* client.set_registered_model_alias(name, alias, version)
set_registered_model_alias(rm, alias, version) ==
    [rm EXCEPT !.aliases = MoveAlias(@, AliasKey(alias), version)]

\* the alias key is removed
DropAlias(aliases, key) == {p \in aliases : p[1] # key}

\* client.delete_registered_model_alias(name, alias)
delete_registered_model_alias(rm, alias) ==
    [rm EXCEPT !.aliases = DropAlias(@, AliasKey(alias))]

\* client.update_registered_model(name, description)
update_registered_model(rm, description) ==
    [rm EXCEPT !.description = description]

\* client.update_model_version(name, version, description)
update_model_version(rm, version, description) ==
    [rm EXCEPT !.versions[version].description = description]

\* the aliases a version carries (ModelVersion.aliases)
AliasesOf(rm, version) == {p[1] : p \in {q \in rm.aliases : q[2] = version}}

\* the versions that carry an alias spelled, in any case, like `alias`
Holders(rm, alias) == {p[2] : p \in {q \in rm.aliases : Lower(q[1]) = alias}}

(***************************************************************************)
(* utils/production_criteria.py, registry part                             *)
(***************************************************************************)
NotFound == [found |-> FALSE]

get_registration_tags(metrics, track, provider, model, passes_criteria, reason) ==
    [track |-> track,
     provider |-> provider,
     model |-> model,
     category_accuracy |-> Round4Str(Get(metrics, "category_accuracy", 0)),
     category_f1 |-> Round4Str(Get(metrics, "category_f1_weighted", 0)),
     sentiment_accuracy |-> Round4Str(Get(metrics, "sentiment_accuracy", 0)),
     production_ready |-> BoolStr(passes_criteria),
     validation_reason |-> SubSeq(reason, 1, IF Len(reason) < 250 THEN Len(reason) ELSE 250)]

\* the four metrics read from the champion's run
RunMetricsOf(m) ==
    [found |-> TRUE,
     category_accuracy |-> Get(m, "category_accuracy", 0),
     category_f1_weighted |-> Get(m, "category_f1_weighted", 0),
     category_precision_weighted |-> Get(m, "category_precision_weighted", 0),
     category_recall_weighted |-> Get(m, "category_recall_weighted", 0)]

\* variant: a missing champion is reported as a champion with default metrics
ChampionOf_defaults(rm, v) ==
    IF v = 0 THEN RunMetricsOf(<<>>) ELSE RunMetricsOf(rm.versions[v].metrics)

\* the metrics of version v's run, None when the alias lookup raised
ChampionOf(rm, v) == IF v = 0 THEN NotFound ELSE RunMetricsOf(rm.versions[v].metrics)

get_champion_metrics(rm, alias) == ChampionOf(rm, get_model_version_by_alias(rm, alias))

\* an entry whose stored metric tags equal the candidate's metrics as stored
SameMetricTags(entry, metrics) ==
    /\ {"category_accuracy", "category_f1", "sentiment_accuracy"} \subseteq DOMAIN entry.tags
    /\ entry.tags.category_accuracy = Round4Str(Get(metrics, "category_accuracy", 0))
    /\ entry.tags.category_f1 = Round4Str(Get(metrics, "category_f1_weighted", 0))
    /\ entry.tags.sentiment_accuracy = Round4Str(Get(metrics, "sentiment_accuracy", 0))

\* the lowest version of a set, 0 for the empty set
FirstOf(versions) ==
    IF versions = {} THEN 0 ELSE CHOOSE v \in versions : \A w \in versions : v <= w

\* check_duplicate_performance: the first version with identical stored
\* metrics, 0 = none
check_duplicate_performance(rm, metrics) ==
    FirstOf({v \in 1..Len(rm.versions) : SameMetricTags(rm.versions[v], metrics)})

(***************************************************************************)
(* utils/mlflow_helpers.py                                                 *)
(***************************************************************************)
NoAlias == ""

\* if description: client.update_registered_model(...)
Describe(rm, description) ==
    IF description # "" THEN update_registered_model(rm, description) ELSE rm

\* if alias: client.set_registered_model_alias(..., version=model_version.version)
AliasNewest(rm, alias) ==
    IF alias # NoAlias THEN set_registered_model_alias(rm, alias, Len(rm.versions))
    ELSE rm

register_model_to_uc(rm, run_metrics, description, tags, alias) ==
    AliasNewest(Describe(register_model(rm, run_metrics, tags), description), alias)

(***************************************************************************)
(* track_a_external/experiment_external.py and                             *)
(* track_b_internal/experiment_internal.py: run_experiment                  *)
(***************************************************************************)
\* all experiments register to the same model
ExperimentModel == "news_classifier"

NotEvaluated == "Production criteria not evaluated"

\* passes_criteria, criteria_reason, model_alias and register_to_uc after the
\* gate, and the duplicate found (0 = none)
Gate(passes_criteria, criteria_reason, model_alias, register_to_uc, duplicate) ==
    [passes_criteria |-> passes_criteria, criteria_reason |-> criteria_reason,
     model_alias |-> model_alias, register_to_uc |-> register_to_uc,
     duplicate |-> duplicate]

\* variant: the first champion is aliased "Champion", as the lookup spells it
ChampionComparison_capitalised(champion_metrics, new_accuracy) ==
    IF ~champion_metrics.found THEN "Champion"
    ELSE IF evaluate_champion_criteria(new_accuracy, champion_metrics.category_accuracy,
                                       ProductionCriteria).passes
    THEN "challenger"
    ELSE "candidate"

\* the alias chosen by the champion comparison
ChampionComparison(champion_metrics, new_accuracy) ==
    IF ~champion_metrics.found THEN "champion"
    ELSE IF evaluate_champion_criteria(new_accuracy, champion_metrics.category_accuracy,
                                       ProductionCriteria).passes
    THEN "challenger"
    ELSE "candidate"

\* variant: the duplicate check is skipped
AfterDuplicateCheck_skipped(rm, metrics, register_to_uc, criteria_reason, duplicate) ==
    Gate(TRUE, criteria_reason,
         ChampionComparison(get_champion_metrics(rm, "Champion"),
                            Get(metrics, "category_accuracy", 0)),
         register_to_uc, 0)

\* a passing run: a duplicate disables registration, otherwise the champion
\* looked up under the alias "Champion" decides the alias
AfterDuplicateCheck(rm, metrics, register_to_uc, criteria_reason, duplicate) ==
    IF duplicate # 0
    THEN Gate(TRUE, criteria_reason, NoAlias, FALSE, duplicate)
    ELSE Gate(TRUE, criteria_reason,
              ChampionComparison(get_champion_metrics(rm, "Champion"),
                                 Get(metrics, "category_accuracy", 0)),
              register_to_uc, 0)

\* variant: a failed criteria check does not disable registration
AfterCriteria_no_reject(rm, metrics, register_to_uc, ev) ==
    IF ~ev.passes
    THEN Gate(FALSE, ev.reason, NoAlias, register_to_uc, 0)
    ELSE AfterDuplicateCheck(rm, metrics, register_to_uc, ev.reason,
                             check_duplicate_performance(rm, metrics))

\* variant: the duplicate check runs before the criteria check
AfterCriteria_duplicate_first(rm, metrics, register_to_uc, ev) ==
    IF check_duplicate_performance(rm, metrics) # 0
    THEN Gate(ev.passes, ev.reason, NoAlias, FALSE,
              check_duplicate_performance(rm, metrics))
    ELSE IF ~ev.passes
    THEN Gate(FALSE, ev.reason, NoAlias, FALSE, 0)
    ELSE AfterDuplicateCheck(rm, metrics, register_to_uc, ev.reason, 0)

\* the criteria verdict ev: a failing run is not registered, a passing run
\* goes on to the duplicate check
AfterCriteria(rm, metrics, register_to_uc, ev) ==
    IF ~ev.passes
    THEN Gate(FALSE, ev.reason, NoAlias, FALSE, 0)
    ELSE AfterDuplicateCheck(rm, metrics, register_to_uc, ev.reason,
                             check_duplicate_performance(rm, metrics))

\* variant: the criteria are evaluated whatever --no-auto-gate says
AutoGate_always(rm, metrics, auto_gate, register_to_uc) ==
    AfterCriteria(rm, metrics, register_to_uc,
                  evaluate_performance_criteria(metrics, ProductionCriteria))

\* the automated gate: criteria, then duplicate, then champion comparison
AutoGate(rm, metrics, auto_gate, register_to_uc) ==
    IF ~auto_gate
    THEN Gate(TRUE, NotEvaluated, NoAlias, register_to_uc, 0)
    ELSE AfterCriteria(rm, metrics, register_to_uc,
                       evaluate_performance_criteria(metrics, ProductionCriteria))

\* the prompt is shown: `if register_to_uc:` then `if require_approval:`
Prompted(register_to_uc, require_approval) == register_to_uc /\ require_approval

\* variant: the answer at the prompt is not looked at
ManualGate_unasked(register_to_uc, require_approval, response) == register_to_uc

\* the manual approval gate, reached only while registration is still enabled
ManualGate(register_to_uc, require_approval, response) ==
    IF register_to_uc /\ require_approval /\ Lower(response) \notin {"yes", "y"}
    THEN FALSE
    ELSE register_to_uc

\* description passed to register_model_to_uc
ExperimentDescription(who, passes_criteria, criteria_reason) ==
    (IF passes_criteria THEN "PRODUCTION READY - " ELSE "EXPERIMENT ONLY - ")
    \o (IF who.track = "A" THEN who.provider \o " " ELSE "")
    \o who.model \o " - " \o criteria_reason

\* the registration block: tags, description, register_model_to_uc
RegisterRun(rm, who, metrics, g) ==
    register_model_to_uc(
        rm, metrics,
        ExperimentDescription(who, g.passes_criteria, g.criteria_reason),
        get_registration_tags(metrics, who.track, who.provider, who.model,
                              g.passes_criteria, g.criteria_reason),
        g.model_alias)

\* after the gate g: the approval prompt, then registration if still enabled
AfterGate(rm, who, metrics, g, registered) ==
    [gate |-> g,
     registered |-> registered,
     rm |-> IF registered THEN RegisterRun(rm, who, metrics, g) ELSE rm]

\* the part of the run after the metrics are computed: gate, prompt and
\* registration
AfterMetrics(rm, who, metrics, g, require_approval, response) ==
    AfterGate(rm, who, metrics, g,
              ManualGate(g.register_to_uc, require_approval, response))

\* the whole run as seen by the registry: the gate decision and the
\* registered model afterwards
run_experiment(rm, who, metrics, register_to_uc, auto_gate, require_approval, response) ==
    AfterMetrics(rm, who, metrics,
                 AutoGate(rm, metrics, auto_gate, register_to_uc),
                 require_approval, response)

(***************************************************************************)
(* scripts/promote_to_production.py                                        *)
(***************************************************************************)
\* "External" in track
IsExternalTrack(track) == track \in {"A - External Model"}

\* model.replace('databricks-', '').replace('-instruct', '')
ModelBase(model) ==
    CASE model = "databricks-gpt-oss-20b" -> "gpt-oss-20b"
      [] model = "databricks-meta-llama-3-3-70b-instruct" -> "meta-llama-3-3-70b"
      [] OTHER -> model

PromotionModelName(params) ==
    IF IsExternalTrack(Get(params, "track", "Unknown"))
    THEN "external_" \o Get(params, "provider", "Unknown") \o "_classifier"
    ELSE "internal_" \o ModelBase(Get(params, "model", "Unknown")) \o "_classifier"

\* dict(run.data.metrics) of version v's run, None when the lookup raised
CurrentOf(rm, v) ==
    IF v = 0 THEN NotFound ELSE [found |-> TRUE, metrics |-> rm.versions[v].metrics]

get_current_champion_metrics(rm, alias) ==
    CurrentOf(rm, get_model_version_by_alias(rm, alias))

\* `if champion_metrics:` - None and the empty dict are both false
Truthy(champion_metrics) ==
    IF champion_metrics.found THEN DOMAIN champion_metrics.metrics # {} ELSE FALSE

\* tags of mlflow.register_model in the standalone script
PromotionTags(run_id, alias, passes_criteria, force) ==
    [promoted_by |-> "standalone_script",
     promoted_from_run |-> run_id,
     production_alias |-> alias,
     passes_criteria |-> BoolStr(passes_criteria),
     forced |-> BoolStr(force)]

PromotionDescription(alias, force) ==
    "PRODUCTION " \o Upper(alias) \o " - Promoted via standalone script"
    \o (IF force THEN " (FORCED)" ELSE "")

\* description of the version just registered
DescribeNewest(rm, description) ==
    update_model_version(rm, Len(rm.versions), description)

\* step 5: register, set the alias, update the description
Promote(rm, run, force, alias, passes_criteria) ==
    DescribeNewest(
        AliasNewest(
            register_model(rm, run.metrics,
                           PromotionTags(run.run_id, alias, passes_criteria, force)),
            alias),
        PromotionDescription(alias, force))

\* variant: the comparison with the current holder never blocks
BlockedByChampion_never(run, force, criteria, champion_metrics) == FALSE

\* step 4: blocked when a current holder of the alias is not beaten
BlockedByChampion(run, force, criteria, champion_metrics) ==
    IF Truthy(champion_metrics) /\ ~force
    THEN ~evaluate_champion_criteria(
              Get(run.metrics, "category_accuracy", 0),
              Get(champion_metrics.metrics, "category_accuracy", 0),
              criteria).passes
    ELSE FALSE

\* variant: --force does not override a failed criteria check
PromoteIfAllowed_force_ignored(rm, run, force, alias, criteria, passes) ==
    IF ~passes
    THEN [exit |-> 1, passes |-> passes, rm |-> rm]
    ELSE IF BlockedByChampion(run, force, criteria,
                              get_current_champion_metrics(rm, alias))
    THEN [exit |-> 1, passes |-> passes, rm |-> rm]
    ELSE [exit |-> 0, passes |-> passes,
          rm |-> Promote(rm, run, force, alias, passes)]

\* steps 2-5 with the criteria verdict `passes`
PromoteIfAllowed(rm, run, force, alias, criteria, passes) ==
    IF ~passes /\ ~force
    THEN [exit |-> 1, passes |-> passes, rm |-> rm]
    ELSE IF BlockedByChampion(run, force, criteria,
                              get_current_champion_metrics(rm, alias))
    THEN [exit |-> 1, passes |-> passes, rm |-> rm]
    ELSE [exit |-> 0, passes |-> passes,
          rm |-> Promote(rm, run, force, alias, passes)]

promote_model_to_production(rm, run, force, alias, criteria) ==
    PromoteIfAllowed(rm, run, force, alias, criteria,
                     evaluate_performance_criteria(run.metrics, criteria).passes)

(***************************************************************************)
(* Promotion Approval: a challenger is promoted to champion                 *)
(***************************************************************************)
\* variant: any answer at the prompt counts as approval
Approved_any_response(auto_approve, response) == TRUE

\* the approval gate: the caller's flag or an interactive yes/no
Approved(auto_approve, response) ==
    auto_approve \/ Lower(response) \in {"yes", "y"}

\* variant: the challenger alias is left on the promoted version
SwapAliases_keeps_challenger(rm, challenger, champion) ==
    set_registered_model_alias(
        IF champion # 0
        THEN set_registered_model_alias(rm, "defeated", champion)
        ELSE rm,
        "champion", challenger)

\* step 4, aliases: the champion (if any) becomes defeated, the challenger
\* becomes champion, the challenger alias is removed
SwapAliases(rm, challenger, champion) ==
    delete_registered_model_alias(
        set_registered_model_alias(
            IF champion # 0
            THEN set_registered_model_alias(rm, "defeated", champion)
            ELSE rm,
            "champion", challenger),
        "challenger")

\* step 4, descriptions of both entries
DescribeOutcome(rm, challenger, champion) ==
    update_model_version(
        IF champion # 0
        THEN update_model_version(rm, champion,
                 "DEFEATED - replaced by promoted challenger")
        ELSE rm,
        challenger, "CHAMPION - promoted from challenger")

\* variant: the champion is demoted before the challenger is looked for
DecidePromotion_demotes_first(rm, challenger, champion, approved) ==
    IF challenger = 0
    THEN [report |-> "no challenger found",
          rm |-> IF champion # 0
                 THEN set_registered_model_alias(rm, "defeated", champion)
                 ELSE rm]
    ELSE IF ~approved
    THEN [report |-> "rejected", rm |-> rm]
    ELSE [report |-> "promoted",
          rm |-> DescribeOutcome(SwapAliases(rm, challenger, champion),
                                 challenger, champion)]

\* steps 3-5 for the located challenger and champion versions (0 = none)
DecidePromotion(rm, challenger, champion, approved) ==
    IF challenger = 0
    THEN [report |-> "no challenger found", rm |-> rm]
    ELSE IF ~approved
    THEN [report |-> "rejected", rm |-> rm]
    ELSE [report |-> "promoted",
          rm |-> DescribeOutcome(SwapAliases(rm, challenger, champion),
                                 challenger, champion)]

promote_challenger(rm, auto_approve, response) ==
    DecidePromotion(rm,
                    get_model_version_by_alias(rm, "challenger"),
                    get_model_version_by_alias(rm, "champion"),
                    Approved(auto_approve, response))

(***************************************************************************)
(* The same workflows when a call to the registry or the tracking server    *)
(* raises.  `fault` names the call that raises during the run ("none": no   *)
(* call raises); a call that raises has no effect on the registry.          *)
(***************************************************************************)
NoFault == "none"

\* utils/production_criteria.py: both except clauses return None
get_champion_metrics_raising(rm, alias, fault) ==
    IF fault \in {"get_model_version_by_alias", "get_run"}
    THEN NotFound
    ELSE get_champion_metrics(rm, alias)

\* what register_model_to_uc leaves behind, and whether it raised
Registration(rm, raised) == [rm |-> rm, raised |-> raised]

\* variant: a failed alias assignment removes the version just registered
SetAliasOrRaise_rolls_back(rm, alias, fault) ==
    IF alias # NoAlias /\ fault = "set_registered_model_alias"
    THEN Registration([rm EXCEPT !.versions = SubSeq(@, 1, Len(@) - 1)], TRUE)
    ELSE Registration(AliasNewest(rm, alias), FALSE)

\* utils/mlflow_helpers.py, the alias step: print and re-raise on failure
SetAliasOrRaise(rm, alias, fault) ==
    IF alias # NoAlias /\ fault = "set_registered_model_alias"
    THEN Registration(rm, TRUE)
    ELSE Registration(AliasNewest(rm, alias), FALSE)

\* the description step, then the alias step
DescribeOrRaise(rm, description, alias, fault) ==
    IF description # "" /\ fault = "update_registered_model"
    THEN Registration(rm, TRUE)
    ELSE SetAliasOrRaise(Describe(rm, description), alias, fault)

\* register_model_to_uc: register, describe, alias; the first call that
\* raises ends it
register_model_to_uc_raising(rm, run_metrics, description, tags, alias, fault) ==
    IF fault = "register_model"
    THEN Registration(rm, TRUE)
    ELSE DescribeOrRaise(register_model(rm, run_metrics, tags), description,
                         alias, fault)

\* run_experiment: the champion lookup is made by a passing, non-duplicate
\* gated run
LookupMade(auto_gate, g) == auto_gate /\ g.passes_criteria /\ g.duplicate = 0

\* the lookup raises: the alias lookup itself, or get_run on the version found
LookupRaised(rm, auto_gate, g, fault) ==
    /\ LookupMade(auto_gate, g)
    /\ \/ fault = "get_model_version_by_alias"
       \/ fault = "get_run" /\ get_model_version_by_alias(rm, "Champion") # 0

\* the gate g of a run, with the alias chosen from the lookup's answer
GateWithLookup(rm, metrics, auto_gate, g, fault) ==
    IF LookupMade(auto_gate, g)
    THEN [g EXCEPT !.model_alias =
             ChampionComparison(get_champion_metrics_raising(rm, "Champion", fault),
                                Get(metrics, "category_accuracy", 0))]
    ELSE g

\* the end of run_experiment: an exception of register_model_to_uc is caught
\* and printed, the function returns, the process ends with status 0
ExperimentOutcome(g, attempted, reg, lookup_raised, fault) ==
    [gate |-> g,
     registered |-> attempted /\ ~reg.raised,
     rm |-> reg.rm,
     raised |-> IF reg.raised \/ lookup_raised THEN fault ELSE NoFault,
     exit |-> 0,
     diagnostic |-> IF reg.raised
                    THEN "Could not register to UC (may need permissions)"
                    ELSE ""]

RegisterRunRaising(rm, who, metrics, g, fault) ==
    register_model_to_uc_raising(
        rm, metrics,
        ExperimentDescription(who, g.passes_criteria, g.criteria_reason),
        get_registration_tags(metrics, who.track, who.provider, who.model,
                              g.passes_criteria, g.criteria_reason),
        g.model_alias, fault)

AfterGateRaising(rm, who, metrics, g, attempted, lookup_raised, fault) ==
    ExperimentOutcome(g, attempted,
                      IF attempted
                      THEN RegisterRunRaising(rm, who, metrics, g, fault)
                      ELSE Registration(rm, FALSE),
                      lookup_raised, fault)

AfterMetricsRaising(rm, who, metrics, auto_gate, g, require_approval, response, fault) ==
    AfterGateRaising(rm, who, metrics, g,
                     ManualGate(g.register_to_uc, require_approval, response),
                     LookupRaised(rm, auto_gate, g, fault), fault)

\* `raise Exception("Failed to connect to Databricks")` leaves run_experiment
\* uncaught: traceback, status 1
run_experiment_raising(rm, who, metrics, register_to_uc, auto_gate, require_approval, response, fault) ==
    IF fault = "verify_databricks_connection"
    THEN [gate |-> Gate(TRUE, NotEvaluated, NoAlias, register_to_uc, 0),
          registered |-> FALSE, rm |-> rm, raised |-> fault, exit |-> 1,
          diagnostic |-> "Failed to connect to Databricks"]
    ELSE AfterMetricsRaising(
             rm, who, metrics, auto_gate,
             GateWithLookup(rm, metrics, auto_gate,
                            AutoGate(rm, metrics, auto_gate, register_to_uc), fault),
             require_approval, response, fault)

\* scripts/promote_to_production.py: how the script ends
Exited(exit, passes, rm, raised, diagnostic) ==
    [exit |-> exit, passes |-> passes, rm |-> rm, raised |-> raised,
     diagnostic |-> diagnostic]

PromotionFailed == "PROMOTION FAILED"

PromotionBlocked == "PROMOTION BLOCKED"

\* the except clause returns None
get_current_champion_metrics_raising(rm, alias, fault) ==
    IF fault = "get_model_version_by_alias"
    THEN NotFound
    ELSE get_current_champion_metrics(rm, alias)

\* step 5, update_model_version
DescribeNewestOrExit(rm, description, passes, fault) ==
    IF fault = "update_model_version"
    THEN Exited(1, passes, rm, fault, PromotionFailed)
    ELSE Exited(0, passes, DescribeNewest(rm, description),
                IF fault = "get_model_version_by_alias" THEN fault ELSE NoFault,
                IF fault = "get_model_version_by_alias"
                THEN "No current alias found" ELSE "")

\* step 5, set_registered_model_alias
AliasNewestOrExit(rm, force, alias, passes, fault) ==
    IF fault = "set_registered_model_alias"
    THEN Exited(1, passes, rm, fault, PromotionFailed)
    ELSE DescribeNewestOrExit(AliasNewest(rm, alias),
                              PromotionDescription(alias, force), passes, fault)

\* step 5, register_model: any exception in the try block prints
\* PROMOTION FAILED and exits 1
PromoteOrExit(rm, run, force, alias, passes, fault) ==
    IF fault = "register_model"
    THEN Exited(1, passes, rm, fault, PromotionFailed)
    ELSE AliasNewestOrExit(
             register_model(rm, run.metrics,
                            PromotionTags(run.run_id, alias, passes, force)),
             force, alias, passes, fault)

PromoteIfAllowedRaising(rm, run, force, alias, criteria, passes, fault) ==
    IF ~passes /\ ~force
    THEN Exited(1, passes, rm, NoFault, PromotionBlocked)
    ELSE IF BlockedByChampion(run, force, criteria,
                 get_current_champion_metrics_raising(rm, alias, fault))
    THEN Exited(1, passes, rm, NoFault, PromotionBlocked)
    ELSE PromoteOrExit(rm, run, force, alias, passes, fault)

\* step 1: mlflow.get_run(run_id) raising prints and exits 1
promote_model_to_production_raising(rm, run, force, alias, criteria, fault) ==
    IF fault = "get_run"
    THEN Exited(1, FALSE, rm, fault, "Failed to load run")
    ELSE PromoteIfAllowedRaising(
             rm, run, force, alias, criteria,
             evaluate_performance_criteria(run.metrics, criteria).passes, fault)

(***************************************************************************)
(* Inputs                                                                  *)
(***************************************************************************)
MetricKeys == {"category_accuracy", "category_f1_weighted",
               "category_precision_weighted", "category_recall_weighted",
               "sentiment_accuracy"}

\* the metrics mapping of one classification run
M(accuracy, f1, precision, recall) ==
    [k \in MetricKeys |->
        CASE k = "category_accuracy" -> accuracy
          [] k = "category_f1_weighted" -> f1
          [] k = "category_precision_weighted" -> precision
          [] k = "category_recall_weighted" -> recall
          [] OTHER -> 80000]

\* runs around the thresholds: accuracy just below 0.90, at 0.90, and 0.02
\* above it (the minimum improvement exactly)
RunMetrics ==
    {M(89999, 85000, 80000, 80000), M(90000, 85000, 80000, 80000),
     M(92000, 85000, 80000, 80000)}

\* who runs an experiment: track A (external provider) or track B
Experimenters ==
    {[track |-> "A", provider |-> "openai", model |-> "gpt-4o-mini"],
     [track |-> "B", provider |-> "databricks", model |-> "databricks-gpt-oss-20b"]}

\* run.data.params of the runs the standalone script is pointed at
RunParams ==
    {[track |-> "A - External Model", provider |-> "openai", model |-> "gpt-4o-mini"]}

RunId(params, metrics) ==
    "run_" \o params.provider \o "_" \o ToString(metrics.category_accuracy)
    \o "_" \o ToString(metrics.category_f1_weighted)

Runs == {[run_id |-> RunId(p, m), params |-> p, metrics |-> m] :
            p \in RunParams, m \in RunMetrics}

\* lines typed at a yes/no prompt
Responses == {"Y", "no"}

\* --alias values of the standalone script
PromotionAliases == {"Champion", "Staging"}

\* the call that raises during an experiment run
ExperimentFaults ==
    {NoFault, "verify_databricks_connection", "get_model_version_by_alias",
     "get_run", "register_model", "update_registered_model",
     "set_registered_model_alias"}

\* the call that raises during a standalone promotion
PromotionFaults ==
    {NoFault, "get_run", "get_model_version_by_alias", "register_model",
     "set_registered_model_alias", "update_model_version"}

ModelNames == {ExperimentModel} \cup {PromotionModelName(p) : p \in RunParams}

RECURSIVE SumVersions(_, _)
SumVersions(reg, names) ==
    IF names = {} THEN 0
    ELSE LET n == CHOOSE x \in names : TRUE
         IN  Len(reg[n].versions) + SumVersions(reg, names \ {n})

TotalVersions(reg) == SumVersions(reg, ModelNames)

(***************************************************************************)
(* Pure-function calls                                                     *)
(***************************************************************************)
NoCall == [fn |-> "none"]

StrictCriteria ==
    [min_accuracy |-> 95000, min_f1_score |-> 90000, min_precision |-> 85000,
     min_recall |-> 85000, min_accuracy_improvement |-> 5000]

\* criteria that ask nothing of recall
NoRecallCriteria == [ProductionCriteria EXCEPT !.min_recall = 0]

CriteriaChoices == {ProductionCriteria, StrictCriteria, NoRecallCriteria}

\* a mapping with any subset of the four checked keys
PartialMetrics ==
    UNION {
      {[k \in keys |->
          CASE k = "category_accuracy" -> a
            [] k = "category_f1_weighted" -> f
            [] k = "category_precision_weighted" -> p
            [] OTHER -> r] :
        a \in {89999, 90000, 95000}, f \in {84999, 85000, 90000},
        p \in {79999, 80000, 85000}, r \in {79999, 80000, 85000}} :
      keys \in SUBSET {"category_accuracy", "category_f1_weighted",
                       "category_precision_weighted", "category_recall_weighted"}}

Accuracies == {89999, 90000, 91500, 92000, 93000, 95000}

PureCalls ==
    {[fn |-> "evaluate_performance_criteria", metrics |-> m, criteria |-> c] :
        m \in PartialMetrics, c \in CriteriaChoices}
    \cup
    {[fn |-> "evaluate_champion_criteria", new_accuracy |-> n,
      current_accuracy |-> o, criteria |-> c] :
        n \in Accuracies, o \in Accuracies, c \in CriteriaChoices}

(***************************************************************************)
(* State machine                                                           *)
(***************************************************************************)
Init ==
    /\ registry = [n \in ModelNames |-> EmptyModel]
    /\ exactAlias \in BOOLEAN
    /\ last = [op |-> "none"]
    /\ call = NoCall
    /\ result = NoCall

\* the registry and the record of the run after run_experiment returned out
ExperimentDone(who, metrics, register_to_uc, auto_gate, require_approval, response, out) ==
    /\ registry' = [registry EXCEPT ![ExperimentModel] = out.rm]
    /\ last' = [op |-> "experiment", name |-> ExperimentModel,
                pre |-> registry[ExperimentModel],
                who |-> who, metrics |-> metrics,
                register_to_uc |-> register_to_uc, auto_gate |-> auto_gate,
                require_approval |-> require_approval, response |-> response,
                gate |-> out.gate, registered |-> out.registered]

RunExperiment ==
    \E who \in Experimenters, metrics \in RunMetrics,
       register_to_uc \in BOOLEAN, auto_gate \in BOOLEAN, require_approval \in BOOLEAN :
    \E response \in (IF require_approval THEN Responses ELSE {""}) :
        /\ TotalVersions(registry) < MaxVersions
        /\ ExperimentDone(who, metrics, register_to_uc, auto_gate, require_approval,
                          response,
                          run_experiment(registry[ExperimentModel], who, metrics,
                                         register_to_uc, auto_gate,
                                         require_approval, response))
        /\ UNCHANGED <<exactAlias, call, result>>

\* the registry and the record of the promotion after the script ended with out
PromotionDone(name, run, force, alias, out) ==
    /\ registry' = [registry EXCEPT ![name] = out.rm]
    /\ last' = [op |-> "promote", name |-> name, pre |-> registry[name], run |-> run,
                force |-> force, alias |-> alias, passes |-> out.passes,
                exit |-> out.exit]

PromoteToProduction ==
    \E run \in Runs, force \in BOOLEAN, alias \in PromotionAliases :
        /\ TotalVersions(registry) < MaxVersions
        /\ PromotionDone(PromotionModelName(run.params), run, force, alias,
                         promote_model_to_production(
                             registry[PromotionModelName(run.params)], run, force,
                             alias, ProductionCriteria))
        /\ UNCHANGED <<exactAlias, call, result>>

\* the registry and the record of the approval after the workflow ended with out
ApprovalDone(name, auto_approve, response, out) ==
    /\ registry' = [registry EXCEPT ![name] = out.rm]
    /\ last' = [op |-> "approve", name |-> name, pre |-> registry[name],
                auto_approve |-> auto_approve, response |-> response,
                challenger |-> get_model_version_by_alias(registry[name], "challenger"),
                champion |-> get_model_version_by_alias(registry[name], "champion"),
                report |-> out.report]

PromoteChallenger ==
    \E name \in ModelNames, auto_approve \in BOOLEAN :
    \E response \in (IF auto_approve THEN {""} ELSE Responses) :
        /\ ApprovalDone(name, auto_approve, response,
                        promote_challenger(registry[name], auto_approve, response))
        /\ UNCHANGED <<exactAlias, call, result>>

Next == RunExperiment \/ PromoteToProduction \/ PromoteChallenger

Spec == Init /\ [][Next]_vars

\* the pure functions applied to inputs drawn from PureCalls
InitPure ==
    /\ registry = [n \in ModelNames |-> EmptyModel]
    /\ exactAlias = TRUE
    /\ last = [op |-> "none"]
    /\ call \in PureCalls
    /\ result = NoCall

EvaluatePerformance ==
    /\ call.fn = "evaluate_performance_criteria"
    /\ result = NoCall
    /\ result' = [fn |-> call.fn,
                  out |-> evaluate_performance_criteria(call.metrics, call.criteria)]
    /\ UNCHANGED <<registry, exactAlias, last, call>>

EvaluateChampion ==
    /\ call.fn = "evaluate_champion_criteria"
    /\ result = NoCall
    /\ result' = [fn |-> call.fn,
                  out |-> evaluate_champion_criteria(call.new_accuracy,
                              call.current_accuracy, call.criteria)]
    /\ UNCHANGED <<registry, exactAlias, last, call>>

NextPure == EvaluatePerformance \/ EvaluateChampion

SpecPure == InitPure /\ [][NextPure]_vars

\* the registry and the record of a run in which the call `fault` raises
ExperimentEnded(who, metrics, register_to_uc, auto_gate, require_approval, response, fault, out) ==
    /\ registry' = [registry EXCEPT ![ExperimentModel] = out.rm]
    /\ last' = [op |-> "experiment", name |-> ExperimentModel,
                pre |-> registry[ExperimentModel],
                who |-> who, metrics |-> metrics,
                register_to_uc |-> register_to_uc, auto_gate |-> auto_gate,
                require_approval |-> require_approval, response |-> response,
                gate |-> out.gate, registered |-> out.registered,
                fault |-> fault, raised |-> out.raised, exit |-> out.exit,
                diagnostic |-> out.diagnostic]

\* track A runs with the default flags but --no-auto-gate: registration on,
\* no prompt
RunExperimentRaising ==
    \E who \in {e \in Experimenters : e.track = "A"}, metrics \in RunMetrics, auto_gate \in BOOLEAN,
       fault \in ExperimentFaults :
        /\ TotalVersions(registry) < MaxVersions
        /\ ExperimentEnded(who, metrics, TRUE, auto_gate, FALSE, "", fault,
                           run_experiment_raising(registry[ExperimentModel], who,
                                                  metrics, TRUE, auto_gate,
                                                  FALSE, "", fault))
        /\ UNCHANGED <<exactAlias, call, result>>

PromotionEnded(name, run, force, alias, fault, out) ==
    /\ registry' = [registry EXCEPT ![name] = out.rm]
    /\ last' = [op |-> "promote", name |-> name, pre |-> registry[name], run |-> run,
                force |-> force, alias |-> alias, passes |-> out.passes,
                fault |-> fault, raised |-> out.raised, exit |-> out.exit,
                diagnostic |-> out.diagnostic]

\* promotions to the default alias
PromoteToProductionRaising ==
    \E run \in Runs, force \in BOOLEAN, fault \in PromotionFaults :
        /\ TotalVersions(registry) < MaxVersions
        /\ PromotionEnded(PromotionModelName(run.params), run, force, "Champion", fault,
                          promote_model_to_production_raising(
                              registry[PromotionModelName(run.params)], run, force,
                              "Champion", ProductionCriteria, fault))
        /\ UNCHANGED <<exactAlias, call, result>>

NextRaising == RunExperimentRaising \/ PromoteToProductionRaising

SpecRaising == Init /\ [][NextRaising]_vars

(***************************************************************************)
(* run_all_experiments.py.  `call` holds what each subprocess will do,      *)
(* `result` the position of main and what it has recorded.                  *)
(***************************************************************************)
\* the list `experiments` of main, by the name main files each result under
experiments ==
    <<[track |-> "external", name |-> "openai"],
      [track |-> "external", name |-> "anthropic"],
      [track |-> "internal", name |-> "databricks-gpt-oss-20b"],
      [track |-> "internal", name |-> "databricks-meta-llama-3-3-70b-instruct"]>>

\* what subprocess.run does: it raises (the interpreter is not found), or
\* the child runs and ends with a return code (negative: killed by a signal)
SubprocessOutcomes ==
    {[raised |-> TRUE, returncode |-> 0]}
    \cup {[raised |-> FALSE, returncode |-> c] : c \in {0, 1, -9}}

\* run_experiment of run_all_experiments.py: True iff the child returned 0
RunSucceeded(outcome) == ~outcome.raised /\ outcome.returncode = 0

\* variant: the loop stops after the first failed experiment
MoreExperiments_until_failure(results) ==
    /\ Len(results) < Len(experiments)
    /\ \A i \in 1..Len(results) : results[i].success

\* `for ... in enumerate(experiments, 1)` has an experiment left
MoreExperiments(results) == Len(results) < Len(experiments)

\* successful_count == total_count ? 0 : 1
MainStatus(results) ==
    IF Cardinality({i \in 1..Len(results) : results[i].success}) = Len(results)
    THEN 0 ELSE 1

InitRunAll ==
    /\ registry = [n \in ModelNames |-> EmptyModel]
    /\ exactAlias = TRUE
    /\ last = [op |-> "none"]
    /\ call \in {[fn |-> "run_all_experiments", outcomes |-> o] :
                    o \in [1..Len(experiments) -> SubprocessOutcomes]}
    /\ result = [fn |-> "run_all_experiments", pc |-> "loop", running |-> 0,
                 launched |-> <<>>, exited |-> <<>>, results |-> <<>>,
                 status |-> -1]

\* results[name] = success
Record(results, name, success) == Append(results, [name |-> name, success |-> success])

\* subprocess.run is called for the next experiment; when it raises no child
\* runs and the failure is recorded at once
LaunchSubprocess ==
    /\ result.pc = "loop" /\ result.running = 0
    /\ MoreExperiments(result.results)
    /\ result' =
         IF call.outcomes[Len(result.results) + 1].raised
         THEN [result EXCEPT
                 !.results = Record(@, experiments[Len(@) + 1].name, FALSE)]
         ELSE [result EXCEPT
                 !.running = Len(result.results) + 1,
                 !.launched = Append(@, experiments[Len(result.results) + 1].name)]
    /\ UNCHANGED <<registry, exactAlias, last, call>>

\* the child ends; subprocess.run returns its return code
SubprocessExits ==
    /\ result.pc = "loop" /\ result.running # 0
    /\ result' = [result EXCEPT
                     !.running = 0,
                     !.exited = Append(@, experiments[result.running].name),
                     !.results = Record(@, experiments[result.running].name,
                                        RunSucceeded(call.outcomes[result.running]))]
    /\ UNCHANGED <<registry, exactAlias, last, call>>

\* the loop is over: summary and return value of main
MainReturns ==
    /\ result.pc = "loop" /\ result.running = 0
    /\ ~MoreExperiments(result.results)
    /\ result' = [result EXCEPT !.pc = "done", !.status = MainStatus(result.results)]
    /\ UNCHANGED <<registry, exactAlias, last, call>>

NextRunAll == LaunchSubprocess \/ SubprocessExits \/ MainReturns

SpecRunAll == InitRunAll /\ [][NextRunAll]_vars

(***************************************************************************)
(* run_experiment and the MLflow run it logs to.  `call` holds the          *)
(* environment and what the try block will do, `result` the position of     *)
(* run_experiment, created_run and the state of the MLflow run.             *)
(***************************************************************************)
\* os.getenv("MLFLOW_RUN_ID"): None, the empty string or a run id
RunIdEnv == {"unset", "", "run_7"}

\* how the try block ends: it completes, or the named call raises
BlockOutcomes ==
    {"completes", "log_model_parameters", "classify", "log_predictions",
     "log_model_metrics", "log_confusion_matrix", "log_model", "input"}

\* `if os.getenv("MLFLOW_RUN_ID"):` - None and "" are false
RunIdGiven(env) == env \notin {"unset", ""}

\* variant: the run is ended whoever created it
EndsRun_always(created_run) == TRUE

\* `if created_run: mlflow.end_run()`
EndsRun(created_run) == created_run

InitRunBlock ==
    /\ registry = [n \in ModelNames |-> EmptyModel]
    /\ exactAlias = TRUE
    /\ last = [op |-> "none"]
    /\ call \in {[fn |-> "run_experiment", MLFLOW_RUN_ID |-> env,
                   active_before |-> a, block |-> b] :
                    env \in RunIdEnv, a \in BOOLEAN, b \in BlockOutcomes}
    /\ result = [fn |-> "run_experiment", pc |-> "start", created_run |-> FALSE,
                 active |-> call.active_before, start_calls |-> 0, end_calls |-> 0,
                 entered |-> FALSE, raised |-> FALSE, exit |-> -1]

\* an externally created run is used, and activated if it is not active
UseExistingRun ==
    /\ result.pc = "start"
    /\ RunIdGiven(call.MLFLOW_RUN_ID)
    /\ result' = [result EXCEPT
                     !.pc = "block", !.entered = TRUE, !.created_run = FALSE,
                     !.active = TRUE,
                     !.start_calls = IF result.active THEN @ ELSE @ + 1]
    /\ UNCHANGED <<registry, exactAlias, last, call>>

\* mlflow.start_run(run_name=...): raises when a run is already active
CreateRun ==
    /\ result.pc = "start"
    /\ ~RunIdGiven(call.MLFLOW_RUN_ID)
    /\ result' =
         IF result.active
         THEN [result EXCEPT !.pc = "done", !.raised = TRUE, !.exit = 1,
                             !.start_calls = @ + 1]
         ELSE [result EXCEPT !.pc = "block", !.entered = TRUE,
                             !.created_run = TRUE, !.active = TRUE,
                             !.start_calls = @ + 1]
    /\ UNCHANGED <<registry, exactAlias, last, call>>

\* the try block runs to its end or to the call that raises
BlockEnds ==
    /\ result.pc = "block"
    /\ result' = [result EXCEPT !.pc = "finally",
                                !.raised = call.block # "completes"]
    /\ UNCHANGED <<registry, exactAlias, last, call>>

\* the finally clause, then the end of run_experiment: return, or the
\* exception goes on to the top level
FinallyClause ==
    /\ result.pc = "finally"
    /\ result' = [result EXCEPT
                     !.pc = "done",
                     !.active = IF EndsRun(result.created_run) THEN FALSE ELSE @,
                     !.end_calls = IF EndsRun(result.created_run) THEN @ + 1 ELSE @,
                     !.exit = IF result.raised THEN 1 ELSE 0]
    /\ UNCHANGED <<registry, exactAlias, last, call>>

NextRunBlock == UseExistingRun \/ CreateRun \/ BlockEnds \/ FinallyClause

SpecRunBlock == InitRunBlock /\ [][NextRunBlock]_vars

(***************************************************************************)
(* cleanup.py.  `call` holds the operator's answer and what the registry    *)
(* will do, `result` the position of main, the versions left and the        *)
(* delete calls made so far.                                                *)
(***************************************************************************)
\* versions a model has when cleanup runs, at most
MaxCleanupVersions == 3

\* the characters str.strip() removes
Whitespace == {" ", "\n", "\t"}

\* str.strip()
RECURSIVE Strip(_)
Strip(s) ==
    IF Len(s) = 0 THEN s
    ELSE IF SubSeq(s, 1, 1) \in Whitespace THEN Strip(SubSeq(s, 2, Len(s)))
    ELSE IF SubSeq(s, Len(s), Len(s)) \in Whitespace
    THEN Strip(SubSeq(s, 1, Len(s) - 1))
    ELSE s

\* `response not in ['yes', 'y']` after .strip().lower()
Confirmed(response) == Lower(Strip(response)) \in {"yes", "y"}

\* the largest element of a non-empty sequence of numbers
Largest(seq) ==
    CHOOSE x \in {seq[i] : i \in 1..Len(seq)} : \A i \in 1..Len(seq) : seq[i] <= x

\* seq without its elements equal to x
Without(seq, x) == SelectSeq(seq, LAMBDA y : y # x)

\* sorted(versions, key=lambda x: int(x.version), reverse=True)
RECURSIVE SortedDescending(_)
SortedDescending(seq) ==
    IF seq = <<>> THEN <<>>
    ELSE <<Largest(seq)>> \o SortedDescending(Without(seq, Largest(seq)))

\* variant: the loop over the versions ends at the first failed delete
RestAfterDelete_stops(todo, failed) == IF failed THEN <<>> ELSE Tail(todo)

\* the loop goes on to the next version whether or not the delete failed
RestAfterDelete(todo, failed) == Tail(todo)

\* the orders in which search_model_versions can list versions 1..n
SearchResults ==
    UNION {{q \in [1..n -> 1..n] : \A i, j \in 1..n : q[i] = q[j] => i = j} :
           n \in 0..MaxCleanupVersions}

\* answers at the prompt of cleanup.py
CleanupResponses == {"yes", "Y", " y ", "no", ""}

DeleteCall(op, arg) == [op |-> op, arg |-> arg]

InitCleanup ==
    /\ registry = [n \in ModelNames |-> EmptyModel]
    /\ exactAlias = TRUE
    /\ last = [op |-> "none"]
    /\ call \in {[fn |-> "cleanup", response |-> r, search_raises |-> sr,
                   found |-> f, failing |-> bad, model_delete_raises |-> mr] :
                    r \in CleanupResponses, sr \in BOOLEAN, f \in SearchResults,
                    bad \in SUBSET (1..MaxCleanupVersions), mr \in BOOLEAN}
    /\ result = [fn |-> "cleanup", pc |-> "prompt", todo |-> <<>>,
                 versions |-> {call.found[i] : i \in 1..Len(call.found)},
                 model |-> TRUE, calls |-> <<>>, exit |-> -1]

\* main: the confirmation prompt
AnswerPrompt ==
    /\ result.pc = "prompt"
    /\ result' = IF Confirmed(call.response)
                 THEN [result EXCEPT !.pc = "search"]
                 ELSE [result EXCEPT !.pc = "done", !.exit = 0]
    /\ UNCHANGED <<registry, exactAlias, last, call>>

\* delete_model_versions: the search; nothing found or an exception ends it
SearchVersions ==
    /\ result.pc = "search"
    /\ result' = IF call.search_raises \/ call.found = <<>>
                 THEN [result EXCEPT !.pc = "experiments"]
                 ELSE [result EXCEPT !.pc = "versions",
                                     !.todo = SortedDescending(call.found)]
    /\ UNCHANGED <<registry, exactAlias, last, call>>

\* one turn of the loop: delete_model_version for the next version
DeleteVersion ==
    /\ result.pc = "versions"
    /\ result.todo # <<>>
    /\ result' = [result EXCEPT
                     !.calls = Append(@, DeleteCall("delete_model_version",
                                                    Head(result.todo))),
                     !.versions = IF Head(result.todo) \in call.failing
                                  THEN @ ELSE @ \ {Head(result.todo)},
                     !.todo = RestAfterDelete(@, Head(result.todo) \in call.failing)]
    /\ UNCHANGED <<registry, exactAlias, last, call>>

\* after the loop: delete_registered_model
DeleteModel ==
    /\ result.pc = "versions"
    /\ result.todo = <<>>
    /\ result' = [result EXCEPT
                     !.pc = "experiments",
                     !.calls = Append(@, DeleteCall("delete_registered_model", 0)),
                     !.model = call.model_delete_raises]
    /\ UNCHANGED <<registry, exactAlias, last, call>>

\* main: delete_experiment for both experiments, then the end of the script
DeleteExperiments ==
    /\ result.pc = "experiments"
    /\ result' = [result EXCEPT
                     !.pc = "done", !.exit = 0,
                     !.calls = @ \o <<DeleteCall("delete_experiment", 1),
                                      DeleteCall("delete_experiment", 2)>>]
    /\ UNCHANGED <<registry, exactAlias, last, call>>

NextCleanup ==
    AnswerPrompt \/ SearchVersions \/ DeleteVersion \/ DeleteModel \/ DeleteExperiments

SpecCleanup == InitCleanup /\ [][NextCleanup]_vars

(***************************************************************************)
(* scripts/daily_inference.py.  `registry` is what the experiments left,    *)
(* `call` what loading and predicting will do, `result` the position of     *)
(* run_daily_inference, what it loaded and the file it wrote.               *)
(***************************************************************************)
\* articles in the production data file, at most
MaxArticles == 2

\* variant: the pipeline loads load_model_by_alias' default alias
ServedAlias_default == "challenger"

\* `alias = "champion"`: production always uses champion
ServedAlias == "champion"

NoFile == [written |-> FALSE]

\* output_data["metadata"] for the loaded version and its tags
Metadata(alias, version, tags, articles, predictions) ==
    [model_alias |-> alias, model_version |-> version,
     provider |-> Get(tags, "provider", "unknown"),
     model_name |-> Get(tags, "model", "unknown"),
     model_accuracy |-> Get(tags, "category_accuracy", "0.0"),
     num_articles |-> articles, num_predictions |-> predictions]

\* registries left by experiment runs and an approved promotion
TrackA == CHOOSE e \in Experimenters : e.track = "A"

FirstRun ==
    run_experiment(EmptyModel, TrackA, M(90000, 85000, 80000, 80000),
                   TRUE, TRUE, FALSE, "").rm

SecondRun ==
    run_experiment(FirstRun, TrackA, M(92000, 85000, 80000, 80000),
                   TRUE, TRUE, FALSE, "").rm

UngatedRun ==
    run_experiment(EmptyModel, TrackA, M(89999, 85000, 80000, 80000),
                   TRUE, FALSE, FALSE, "").rm

ServedRegistries ==
    {EmptyModel, FirstRun, SecondRun, UngatedRun,
     promote_challenger(SecondRun, TRUE, "").rm}

InitInference ==
    /\ exactAlias \in BOOLEAN
    /\ registry \in {[n \in ModelNames |->
                         IF n = ExperimentModel THEN rm ELSE EmptyModel] :
                        rm \in ServedRegistries}
    /\ last = [op |-> "none"]
    /\ call \in {[fn |-> "run_daily_inference", load_raises |-> l,
                   data_raises |-> d, predict_raises |-> p, articles |-> n] :
                    l \in BOOLEAN, d \in BOOLEAN, p \in BOOLEAN, n \in 0..MaxArticles}
    /\ result = [fn |-> "run_daily_inference", pc |-> "load", version |-> 0,
                 loaded |-> 0, tags |-> <<>>, predictions |-> -1,
                 file |-> NoFile, exit |-> -1]

\* load_model_by_alias: the version the alias names, or None when the lookup
\* or load_model raises
load_model_by_alias(rm, alias, load_raises) ==
    IF get_model_version_by_alias(rm, alias) = 0 \/ load_raises
    THEN [model |-> 0, version |-> 0, tags |-> <<>>]
    ELSE [model |-> get_model_version_by_alias(rm, alias),
          version |-> get_model_version_by_alias(rm, alias),
          tags |-> rm.versions[get_model_version_by_alias(rm, alias)].tags]

\* step 1 with the answer of load_model_by_alias
Loaded(found) ==
    IF found.model = 0
    THEN [result EXCEPT !.pc = "done", !.exit = 1]
    ELSE [result EXCEPT !.pc = "data", !.version = found.version,
                        !.loaded = found.model, !.tags = found.tags]

LoadChampion ==
    /\ result.pc = "load"
    /\ result' = Loaded(load_model_by_alias(registry[ExperimentModel], ServedAlias,
                                            call.load_raises))
    /\ UNCHANGED <<registry, exactAlias, last, call>>

\* step 2: open and json.load are not guarded
LoadData ==
    /\ result.pc = "data"
    /\ result' = IF call.data_raises
                 THEN [result EXCEPT !.pc = "done", !.exit = 1]
                 ELSE [result EXCEPT !.pc = "predict"]
    /\ UNCHANGED <<registry, exactAlias, last, call>>

\* step 3: model.predict; an exception prints and exits 1
Predict ==
    /\ result.pc = "predict"
    /\ result' = IF call.predict_raises
                 THEN [result EXCEPT !.pc = "done", !.exit = 1]
                 ELSE [result EXCEPT !.pc = "save", !.predictions = call.articles]
    /\ UNCHANGED <<registry, exactAlias, last, call>>

\* step 4: the predictions file
SavePredictions ==
    /\ result.pc = "save"
    /\ result' = [result EXCEPT
                     !.pc = "done", !.exit = 0,
                     !.file = [written |-> TRUE,
                               metadata |-> Metadata(ServedAlias, result.version,
                                                     result.tags, call.articles,
                                                     result.predictions)]]
    /\ UNCHANGED <<registry, exactAlias, last, call>>

NextInference == LoadChampion \/ LoadData \/ Predict \/ SavePredictions

SpecInference == InitInference /\ [][NextInference]_vars

(***************************************************************************)
(* track_a_external/external_agent.py and track_b_internal/internal_agent.py:*)
(* _parse_response (the same code in both), config/news_categories.py.      *)
(* `call` holds the response, `result` the dict being filled and the line   *)
(* the loop has reached.                                                    *)
(***************************************************************************)
\* lines in a response, at most
MaxLines == 2

NEWS_CATEGORIES ==
    <<"Politics", "Technology", "Business", "Sports", "Entertainment", "Health",
      "Science", "World News">>

SENTIMENT_CATEGORIES == <<"Positive", "Neutral", "Negative">>

UpperCase == "ABCDEFGHIJKLMNOPQRSTUVWXYZ"

LowerCase == "abcdefghijklmnopqrstuvwxyz"

\* one character in lower case
LowerChar(c) ==
    IF Contains(UpperCase, c)
    THEN SubSeq(LowerCase, CHOOSE i \in Occurrences(UpperCase, c) : TRUE,
                CHOOSE i \in Occurrences(UpperCase, c) : TRUE)
    ELSE c

\* str.lower()
RECURSIVE ToLower(_)
ToLower(s) ==
    IF Len(s) = 0 THEN s
    ELSE LowerChar(SubSeq(s, 1, 1)) \o ToLower(SubSeq(s, 2, Len(s)))

\* the first place where t occurs in s, 0 = nowhere
Find(s, t) ==
    IF Contains(s, t)
    THEN CHOOSE i \in Occurrences(s, t) : \A j \in Occurrences(s, t) : i <= j
    ELSE 0

\* str.split("\n")
RECURSIVE SplitLines(_)
SplitLines(s) ==
    IF Find(s, "\n") = 0 THEN <<s>>
    ELSE <<SubSeq(s, 1, Find(s, "\n") - 1)>>
         \o SplitLines(SubSeq(s, Find(s, "\n") + 1, Len(s)))

\* key, value = line.split(":", 1); key.strip().lower(); value.strip()
KeyOf(line) == ToLower(Strip(SubSeq(line, 1, Find(line, ":") - 1)))

ValueOf(line) == Strip(SubSeq(line, Find(line, ":") + 1, Len(line)))

\* the members of a list, and the members whose lower case occurs in value
Members(known) == {known[i] : i \in 1..Len(known)}

Matches(value, known) ==
    {i \in 1..Len(known) : Contains(ToLower(value), ToLower(known[i]))}

\* variant: a value that matches nothing is stored as it is
Recognise_raw(value, known, current) ==
    IF value \in Members(known) THEN value
    ELSE IF Matches(value, known) # {}
    THEN known[CHOOSE i \in Matches(value, known) :
                   \A j \in Matches(value, known) : i <= j]
    ELSE value

\* the validation of a value: itself when it is in the list, else the first
\* list member it contains, else what was there before
Recognise(value, known, current) ==
    IF value \in Members(known) THEN value
    ELSE IF Matches(value, known) # {}
    THEN known[CHOOSE i \in Matches(value, known) :
                   \A j \in Matches(value, known) : i <= j]
    ELSE current

\* the body of the loop for one line
ParsedLine(parsed, line) ==
    IF ~Contains(line, ":") THEN parsed
    ELSE IF Contains(KeyOf(line), "category")
    THEN [parsed EXCEPT !.category = Recognise(ValueOf(line), NEWS_CATEGORIES, @)]
    ELSE IF Contains(KeyOf(line), "sentiment")
    THEN [parsed EXCEPT !.sentiment = Recognise(ValueOf(line), SENTIMENT_CATEGORIES, @)]
    ELSE parsed

\* lines a model may answer with
ResponseLines ==
    {"Category: Sports", "category : sports news", "Category: Cooking",
     "Category: Science and Technology", "  Category:Health  ",
     "Category: World News: Europe", "Sentiment: Positive",
     "SENTIMENT: very negative", "Sentiment: Mixed", "Sentiment category: Neutral",
     "no colon here", ""}

\* the lines joined by "\n"
RECURSIVE JoinLines(_)
JoinLines(lines) ==
    IF Len(lines) = 0 THEN ""
    ELSE IF Len(lines) = 1 THEN lines[1]
    ELSE lines[1] \o "\n" \o JoinLines(Tail(lines))

AgentResponses ==
    {JoinLines(lines) : lines \in UNION {[1..n -> ResponseLines] : n \in 1..MaxLines}}

InitParse ==
    /\ registry = [n \in ModelNames |-> EmptyModel]
    /\ exactAlias = TRUE
    /\ last = [op |-> "none"]
    /\ call \in {[fn |-> "_parse_response", response |-> r] : r \in AgentResponses}
    /\ result = [fn |-> "_parse_response", pc |-> "loop",
                 lines |-> SplitLines(Strip(call.response)), line |-> 1,
                 parsed |-> [category |-> "Unknown", sentiment |-> "Unknown",
                             raw_response |-> call.response]]

\* one turn of `for line in lines`
ParseLine ==
    /\ result.fn = "_parse_response" /\ result.pc = "loop"
    /\ result.line <= Len(result.lines)
    /\ result' = [result EXCEPT
                     !.line = @ + 1,
                     !.parsed = ParsedLine(@, result.lines[result.line])]
    /\ UNCHANGED <<registry, exactAlias, last, call>>

\* `return result`
ParseReturns ==
    /\ result.fn = "_parse_response" /\ result.pc = "loop"
    /\ result.line > Len(result.lines)
    /\ result' = [result EXCEPT !.pc = "done"]
    /\ UNCHANGED <<registry, exactAlias, last, call>>

NextParse == ParseLine \/ ParseReturns

SpecParse == InitParse /\ [][NextParse]_vars

(***************************************************************************)
(* Concurrent run_experiment invocations against one registered model:      *)
(* the registry calls of experiment_external.py 225-272 and 404-412 and of  *)
(* mlflow_helpers.register_model_to_uc 196-220, one call at a time.         *)
(* result[p] is invocation p's position and what it holds; `last` counts    *)
(* the alias writes made so far.                                            *)
(***************************************************************************)
\* invocations in flight against the same model
MaxInvocations == 3

Invocations == 1..MaxInvocations

NoGate == Gate(FALSE, "", NoAlias, FALSE, 0)

\* variant: the alias is set only while no version holds it
AliasOwn_if_free(rm, alias, version) ==
    IF alias # NoAlias /\ get_model_version_by_alias(rm, alias) = 0
    THEN set_registered_model_alias(rm, alias, version)
    ELSE rm

\* if alias: client.set_registered_model_alias(..., version=model_version.version)
\* with the version register_model returned to this invocation
AliasOwn(rm, alias, version) ==
    IF alias # NoAlias THEN set_registered_model_alias(rm, alias, version) ELSE rm

InitRace ==
    /\ exactAlias \in BOOLEAN
    /\ registry = [n \in ModelNames |-> EmptyModel]
    /\ last = [op |-> "none", writes |-> 0]
    /\ call \in {[fn |-> "run_experiment", who |-> w] :
                    w \in {e \in Experimenters : e.track = "A"}}
    /\ result = [p \in Invocations |->
                    [pc |-> "start", metrics |-> <<>>, gate |-> NoGate,
                     version |-> 0, read_at |-> 0, wrote_at |-> 0]]

\* the automated gate of invocation p: the duplicate check and the champion
\* lookup read the registry, nothing is written yet
ReadRegistry(p) ==
    /\ call.fn = "run_experiment" /\ result[p].pc = "start"
    /\ p > 1 => result[p - 1].pc # "start"
    /\ \E metrics \in RunMetrics :
          result' = [result EXCEPT ![p] =
              [@ EXCEPT !.metrics = metrics,
                        !.gate = AutoGate(registry[ExperimentModel], metrics, TRUE, TRUE),
                        !.read_at = last.writes,
                        !.pc = IF AutoGate(registry[ExperimentModel], metrics,
                                           TRUE, TRUE).register_to_uc
                               THEN "register" ELSE "done"]]
    /\ UNCHANGED <<registry, exactAlias, last, call>>

\* mlflow.register_model: a new version, whose number the invocation keeps
RegisterVersion(p) ==
    /\ call.fn = "run_experiment" /\ result[p].pc = "register"
    /\ registry' = [registry EXCEPT ![ExperimentModel] =
          register_model(@, result[p].metrics,
              get_registration_tags(result[p].metrics, call.who.track,
                  call.who.provider, call.who.model,
                  result[p].gate.passes_criteria, result[p].gate.criteria_reason))]
    /\ result' = [result EXCEPT ![p] =
          [@ EXCEPT !.version = Len(registry[ExperimentModel].versions) + 1,
                    !.pc = "describe"]]
    /\ UNCHANGED <<exactAlias, last, call>>

\* client.update_registered_model
DescribeModel(p) ==
    /\ call.fn = "run_experiment" /\ result[p].pc = "describe"
    /\ registry' = [registry EXCEPT ![ExperimentModel] =
          Describe(@, ExperimentDescription(call.who, result[p].gate.passes_criteria,
                                            result[p].gate.criteria_reason))]
    /\ result' = [result EXCEPT ![p] = [@ EXCEPT !.pc = "alias"]]
    /\ UNCHANGED <<exactAlias, last, call>>

\* client.set_registered_model_alias with the alias decided at the gate
SetAlias(p) ==
    /\ call.fn = "run_experiment" /\ result[p].pc = "alias"
    /\ registry' = [registry EXCEPT ![ExperimentModel] =
          AliasOwn(@, result[p].gate.model_alias, result[p].version)]
    /\ last' = [op |-> "set_registered_model_alias", writes |-> last.writes + 1]
    /\ result' = [result EXCEPT ![p] =
          [@ EXCEPT !.wrote_at = last.writes + 1, !.pc = "done"]]
    /\ UNCHANGED <<exactAlias, call>>

NextRace ==
    \E p \in Invocations :
        \/ ReadRegistry(p)
        \/ RegisterVersion(p)
        \/ DescribeModel(p)
        \/ SetAlias(p)

SpecRace == InitRace /\ [][NextRace]_vars

(***************************************************************************)
(* Properties                                                              *)
(***************************************************************************)
CheckedKeys == {"category_accuracy", "category_f1_weighted",
                "category_precision_weighted", "category_recall_weighted"}

MeetsAll(metrics, criteria) ==
    /\ metrics["category_accuracy"] >= criteria.min_accuracy
    /\ metrics["category_f1_weighted"] >= criteria.min_f1_score
    /\ metrics["category_precision_weighted"] >= criteria.min_precision
    /\ metrics["category_recall_weighted"] >= criteria.min_recall

\* C1: evaluate_performance_criteria returns (true, "All performance criteria
\* met") exactly when each of the four metrics is at or above its threshold,
\* and passes = false otherwise.
C1_PerformanceIff ==
    (result.fn = "evaluate_performance_criteria" /\ CheckedKeys \subseteq DOMAIN call.metrics)
    => /\ (result.out.passes /\ result.out.reason = AllMet)
            <=> MeetsAll(call.metrics, call.criteria)
       /\ ~MeetsAll(call.metrics, call.criteria) => ~result.out.passes

\* every metric exactly at its threshold passes
C1_Witness ==
    /\ result.fn = "evaluate_performance_criteria"
    /\ call.criteria = ProductionCriteria
    /\ CheckedKeys \subseteq DOMAIN call.metrics
    /\ call.metrics["category_accuracy"] = 90000
    /\ call.metrics["category_f1_weighted"] = 85000
    /\ call.metrics["category_precision_weighted"] = 80000
    /\ call.metrics["category_recall_weighted"] = 80000
    /\ result.out.passes

\* C2: evaluate_champion_criteria beats exactly when new - current is at least
\* min_accuracy_improvement; 0.92 against 0.90 beats, 0.915 against 0.90 does
\* not (default criteria).
C2_ChampionIff ==
    result.fn = "evaluate_champion_criteria"
    => /\ result.out.passes
            <=> (call.new_accuracy - call.current_accuracy
                   >= call.criteria.min_accuracy_improvement)
       /\ (call.criteria = ProductionCriteria /\ call.current_accuracy = 90000)
            => /\ call.new_accuracy = 92000 => result.out.passes
               /\ call.new_accuracy = 91500 => ~result.out.passes

\* the improvement equals the minimum exactly and beats
C2_Witness ==
    /\ result.fn = "evaluate_champion_criteria"
    /\ call.criteria = ProductionCriteria
    /\ call.new_accuracy = 92000
    /\ call.current_accuracy = 90000
    /\ result.out.passes

\* C3: after any sequence of experiment runs, standalone promotions and
\* promotion approvals, no registered model has two versions holding the
\* champion alias.
C3_OneChampion ==
    \A n \in ModelNames : Cardinality(Holders(registry[n], "champion")) <= 1

\* an approval has just moved the champion alias from one version to another
C3_Witness ==
    /\ last.op = "approve"
    /\ last.report = "promoted"
    /\ last.champion # 0
    /\ Holders(registry[last.name], "champion") = {last.challenger}

\* the experiment run just made, and what it met in the registry
GatedRun == last.op = "experiment" /\ last.auto_gate

RegistrationAllowed ==
    /\ last.register_to_uc
    /\ last.require_approval => Lower(last.response) \in {"yes", "y"}

Post == registry[last.name]

NewVersion == Len(Post.versions)

Added == Len(Post.versions) = Len(last.pre.versions) + 1

PassesCriteria == MeetsAll(last.metrics, ProductionCriteria)

Duplicates ==
    {v \in 1..Len(last.pre.versions) : SameMetricTags(last.pre.versions[v], last.metrics)}

\* the version that held the champion alias before the run
Incumbent == CHOOSE v \in Holders(last.pre, "champion") : TRUE

Improvement ==
    last.metrics["category_accuracy"]
      - last.pre.versions[Incumbent].metrics["category_accuracy"]

\* C4: with no champion in the registry, a passing, non-duplicate gated run
\* registers a new version and aliases it champion, and nothing else.
C4_FirstChampion ==
    (/\ GatedRun /\ RegistrationAllowed /\ PassesCriteria
     /\ Duplicates = {}
     /\ Holders(last.pre, "champion") = {})
    => /\ Added
       /\ Post.versions[NewVersion].metrics = last.metrics
       /\ AliasesOf(Post, NewVersion) = {"champion"}

\* a first champion has been registered into a registry that has versions
C4_Witness ==
    /\ GatedRun /\ RegistrationAllowed /\ PassesCriteria
    /\ Duplicates = {}
    /\ Holders(last.pre, "champion") = {}
    /\ Len(last.pre.versions) > 0
    /\ AliasesOf(Post, NewVersion) = {"champion"}

\* C5: with a champion in the registry, a passing, non-duplicate run that
\* beats it by at least the minimum improvement is registered as challenger,
\* not champion, and the incumbent keeps the champion alias.
C5_Challenger ==
    (/\ GatedRun /\ RegistrationAllowed /\ PassesCriteria
     /\ Duplicates = {}
     /\ Holders(last.pre, "champion") # {}
     /\ Improvement >= ProductionCriteria.min_accuracy_improvement)
    => /\ Added
       /\ AliasesOf(Post, NewVersion) = {"challenger"}
       /\ Holders(Post, "champion") = {Incumbent}

\* C6: with a champion in the registry, a passing, non-duplicate run that
\* improves on it by less than the minimum is registered as candidate; the
\* champion and challenger aliases stay where they were.
C6_Candidate ==
    (/\ GatedRun /\ RegistrationAllowed /\ PassesCriteria
     /\ Duplicates = {}
     /\ Holders(last.pre, "champion") # {}
     /\ Improvement < ProductionCriteria.min_accuracy_improvement)
    => /\ Added
       /\ AliasesOf(Post, NewVersion) = {"candidate"}
       /\ Holders(Post, "champion") = Holders(last.pre, "champion")
       /\ Holders(Post, "challenger") = Holders(last.pre, "challenger")

\* C7: a gated run whose metrics fail the criteria leaves the registered
\* model exactly as it was: no version, alias or description changes.
C7_RejectedNoMutation ==
    (GatedRun /\ ~PassesCriteria)
    => /\ ~last.registered
       /\ ~last.gate.passes_criteria
       /\ Post = last.pre

\* a failing run met a registry that already had a champion
C7_Witness ==
    /\ GatedRun /\ ~PassesCriteria /\ last.register_to_uc
    /\ Holders(last.pre, "champion") # {}
    /\ Post = last.pre

\* C8: a passing gated run whose metrics equal the stored metric tags of an
\* existing version gets that version back from the duplicate check, is not
\* registered, and leaves the registered model unchanged.
C8_DuplicateRejected ==
    (GatedRun /\ PassesCriteria /\ Duplicates # {})
    => /\ last.gate.duplicate \in Duplicates
       /\ ~last.registered
       /\ Post = last.pre

\* a passing run repeated the metrics of a registered version
C8_Witness ==
    /\ GatedRun /\ PassesCriteria /\ RegistrationAllowed
    /\ Duplicates # {}
    /\ last.gate.duplicate \in Duplicates
    /\ Post = last.pre

C9_WitnessChallenger ==
    /\ GatedRun /\ RegistrationAllowed
    /\ PassesCriteria /\ Duplicates = {}
    /\ last.registered
    /\ AliasesOf(Post, NewVersion) = {"challenger"}

\* C10: an auto-approved promotion approval on a registry with a challenger
\* and a champion leaves the former champion aliased defeated, the former
\* challenger aliased champion, and no version aliased challenger.
C10_ApprovalSwap ==
    (/\ last.op = "approve" /\ last.auto_approve
     /\ last.challenger # 0 /\ last.champion # 0)
    => /\ AliasesOf(Post, last.champion) = {"defeated"}
       /\ AliasesOf(Post, last.challenger) = {"champion"}
       /\ Holders(Post, "challenger") = {}

\* an auto-approved promotion has swapped a champion and a challenger
C10_Witness ==
    /\ last.op = "approve" /\ last.auto_approve
    /\ last.challenger # 0 /\ last.champion # 0
    /\ last.challenger # last.champion
    /\ last.report = "promoted"
    /\ "champion" \in AliasesOf(Post, last.challenger)

\* C11: Promotion Approval run on a model no version of which holds the
\* challenger alias changes nothing in the registry (versions, aliases,
\* descriptions) and reports "no challenger found".
C11_NoChallengerNoOp ==
    (last.op = "approve" /\ Holders(last.pre, "challenger") = {})
    => /\ Post = last.pre
       /\ last.report = "no challenger found"

\* an approval found a champion but no challenger
C11_Witness ==
    /\ last.op = "approve"
    /\ Holders(last.pre, "challenger") = {}
    /\ Holders(last.pre, "champion") # {}
    /\ last.champion # 0
    /\ last.report = "no challenger found"

\* C12: when the approval gate rejects (no auto-approve and an answer other
\* than yes), Promotion Approval changes nothing: the challenger keeps the
\* challenger alias and the champion, if any, keeps the champion alias.
C12_RejectionNoMutation ==
    (/\ last.op = "approve" /\ last.challenger # 0
     /\ ~last.auto_approve /\ Lower(last.response) \notin {"yes", "y"})
    => /\ last.report = "rejected"
       /\ Post = last.pre
       /\ Holders(Post, "challenger") = {last.challenger}
       /\ Holders(Post, "champion") = Holders(last.pre, "champion")

\* a challenger standing next to a champion was rejected at the prompt
C12_Witness ==
    /\ last.op = "approve" /\ last.report = "rejected"
    /\ last.response = "no"
    /\ last.challenger # 0 /\ last.champion # 0
    /\ Holders(Post, "challenger") = {last.challenger}

\* C13: promote_model_to_production on a run whose metrics fail the criteria
\* exits 1 and leaves the registry unchanged when force is not given; with
\* force it registers a new version tagged forced = "true" and
\* passes_criteria = "false".
C13_ForceOverride ==
    (last.op = "promote" /\ ~MeetsAll(last.run.metrics, ProductionCriteria))
    => /\ ~last.passes
       /\ ~last.force => (last.exit = 1 /\ Post = last.pre)
       /\ last.force
            => /\ last.exit = 0
               /\ Added
               /\ Post.versions[NewVersion].metrics = last.run.metrics
               /\ Post.versions[NewVersion].tags.forced = "true"
               /\ Post.versions[NewVersion].tags.passes_criteria = "false"

\* a failing run was promoted with force over a registered version
C13_Witness ==
    /\ last.op = "promote" /\ last.force
    /\ ~MeetsAll(last.run.metrics, ProductionCriteria)
    /\ Len(last.pre.versions) > 0
    /\ Added
    /\ Post.versions[NewVersion].tags.forced = "true"

\* the threshold and the label of the clause of each checked key
ThresholdOf(criteria, key) ==
    CASE key = "category_accuracy" -> criteria.min_accuracy
      [] key = "category_f1_weighted" -> criteria.min_f1_score
      [] key = "category_precision_weighted" -> criteria.min_precision
      [] OTHER -> criteria.min_recall

LabelOf(key) ==
    CASE key = "category_accuracy" -> "Accuracy "
      [] key = "category_f1_weighted" -> "F1 score "
      [] key = "category_precision_weighted" -> "Precision "
      [] OTHER -> "Recall "

\* C17: evaluate_performance_criteria returns a (bool, string) pair for every
\* mapping, the empty one and those missing keys included; a missing metric
\* with a positive threshold makes the result fail, with a clause for that
\* metric.
C17_Total ==
    result.fn = "evaluate_performance_criteria"
    => /\ result.out.passes \in BOOLEAN
       /\ result.out.reason \in STRING
       /\ Len(result.out.reason) > 0
       /\ \A key \in CheckedKeys \ DOMAIN call.metrics :
              ThresholdOf(call.criteria, key) > 0
              => /\ ~result.out.passes
                 /\ Contains(result.out.reason, LabelOf(key))

\* the empty mapping was evaluated and failed on all four metrics
C17_Witness ==
    /\ result.fn = "evaluate_performance_criteria"
    /\ call.criteria = ProductionCriteria
    /\ DOMAIN call.metrics = {}
    /\ ~result.out.passes
    /\ Contains(result.out.reason, "Accuracy 0.00% below 90.00% threshold")
    /\ Contains(result.out.reason, "Recall 0.000 below 0.800 threshold")

\* the checked keys whose metric, read with default 0, is below its threshold
BelowKeys ==
    {key \in CheckedKeys :
        (IF key \in DOMAIN call.metrics THEN call.metrics[key] ELSE 0)
          < ThresholdOf(call.criteria, key)}

\* the one place of key's clause in the reason
PlaceOf(key) == CHOOSE i \in Occurrences(result.out.reason, LabelOf(key)) : TRUE

\* position of a key in the order accuracy, F1, precision, recall
OrderOf(key) ==
    CASE key = "category_accuracy" -> 1
      [] key = "category_f1_weighted" -> 2
      [] key = "category_precision_weighted" -> 3
      [] OTHER -> 4

\* C18: a failure reason has exactly one clause for each metric below its
\* threshold and none for the others, in the order accuracy, F1, precision,
\* recall, joined by "; "; an accuracy below min_accuracy gives passes = false
\* and a reason that mentions "Accuracy".
C18_ReasonClauses ==
    result.fn = "evaluate_performance_criteria"
    => /\ \A key \in CheckedKeys :
              Cardinality(Occurrences(result.out.reason, LabelOf(key)))
                = IF key \in BelowKeys THEN 1 ELSE 0
       /\ Cardinality(Occurrences(result.out.reason, " below "))
            = Cardinality(BelowKeys)
       /\ \A k1, k2 \in BelowKeys :
              OrderOf(k1) < OrderOf(k2) => PlaceOf(k1) < PlaceOf(k2)
       /\ BelowKeys # {}
            => Cardinality(Occurrences(result.out.reason, "; "))
                 = Cardinality(BelowKeys) - 1
       /\ "category_accuracy" \in BelowKeys
            => /\ ~result.out.passes
               /\ SubSeq(result.out.reason, 1, 9) = "Accuracy "

\* accuracy just below its threshold and recall below: two clauses, accuracy
\* first
C18_Witness ==
    /\ result.fn = "evaluate_performance_criteria"
    /\ call.criteria = ProductionCriteria
    /\ BelowKeys = {"category_accuracy", "category_recall_weighted"}
    /\ "category_accuracy" \in DOMAIN call.metrics
    /\ call.metrics["category_accuracy"] = 89999
    /\ result.out.reason =
         "Accuracy 90.00% below 90.00% threshold; Recall 0.800 below 0.800 threshold"

\* C19: the reason of evaluate_champion_criteria shows the improvement and
\* both accuracies, whether or not the candidate beats the champion.
C19_ReasonReportsAll ==
    result.fn = "evaluate_champion_criteria"
    => /\ Contains(result.out.reason, Pct2(call.new_accuracy - call.current_accuracy))
       /\ Contains(result.out.reason, Pct2(call.current_accuracy))
       /\ Contains(result.out.reason, Pct2(call.new_accuracy))

\* the run just made under SpecRaising, and the call that raised in it
Ran == last.op \in {"experiment", "promote"}

RegistrationCalls == {"register_model", "update_registered_model",
                      "set_registered_model_alias", "update_model_version"}

LookupCalls == {"verify_databricks_connection", "get_model_version_by_alias",
                "get_run"}

\* C14: when register, set_alias or an update of the description raises, in
\* an experiment run or in the standalone promotion, a diagnostic is printed
\* and the process ends with a non-zero status.
C14_FailureExits ==
    (Ran /\ last.raised \in RegistrationCalls)
    => /\ last.diagnostic # ""
       /\ last.exit # 0

\* C15: when the registry cannot be reached (the connection check, the alias
\* lookup or the read of the champion's run raises), the process exits
\* non-zero and registers nothing; the failure is not read as "no champion".
C15_ConnectivitySurfaced ==
    (Ran /\ last.raised \in LookupCalls)
    => /\ last.exit # 0
       /\ Post = last.pre

\* the metrics of the run just made
RanMetrics == IF last.op = "promote" THEN last.run.metrics ELSE last.metrics

\* C16: when register succeeded and a later call of the same registration
\* raises, the failure is reported, no further registry call is made and
\* nothing is undone: the new version stays, without the alias if set_alias
\* raised, and an alias moved before the failure stays on the new version.
C16_NoRollback ==
    (Ran /\ last.raised \in RegistrationCalls \ {"register_model"})
    => /\ last.diagnostic # ""
       /\ Added
       /\ Post.versions[NewVersion].metrics = RanMetrics
       /\ SubSeq(Post.versions, 1, Len(last.pre.versions)) = last.pre.versions
       /\ last.raised = "update_registered_model"
            => /\ Post.description = last.pre.description
               /\ Post.aliases = last.pre.aliases
       /\ last.raised = "set_registered_model_alias"
            => /\ Post.aliases = last.pre.aliases
               /\ AliasesOf(Post, NewVersion) = {}
               /\ Post.versions[NewVersion].description = ""
               /\ last.op = "experiment"
                    => Post.description =
                         ExperimentDescription(last.who, last.gate.passes_criteria,
                                               last.gate.criteria_reason)
       /\ last.raised = "update_model_version"
            => /\ Holders(Post, Lower(last.alias)) = {NewVersion}
               /\ Post.versions[NewVersion].description = ""

\* a promotion moved the alias off the version that held it and then failed
\* to update the description
C16_Witness ==
    /\ last.op = "promote" /\ last.raised = "update_model_version"
    /\ Holders(last.pre, "champion") # {}
    /\ Holders(Post, "champion") = {NewVersion}
    /\ NewVersion \notin Holders(last.pre, "champion")
    /\ last.exit = 1

\* an experiment registered a version and failed to alias it
C16_WitnessExperiment ==
    /\ last.op = "experiment" /\ last.raised = "set_registered_model_alias"
    /\ Added
    /\ AliasesOf(Post, NewVersion) = {}
    /\ last.gate.model_alias = "challenger"

\* the version holding the promotion's target alias before it ran, 0 = none
Holder == get_model_version_by_alias(last.pre, last.alias)

\* C22: without --force the standalone promotion changes the registry only
\* when the run passes the criteria and either nothing holds the target alias
\* or the run's accuracy exceeds the holder's by at least the minimum
\* improvement; otherwise it exits 1 with the registry as it was.
C22_PromotionGuard ==
    (last.op = "promote" /\ ~last.force)
    => IF /\ MeetsAll(last.run.metrics, ProductionCriteria)
          /\ \/ Holder = 0
             \/ last.run.metrics["category_accuracy"]
                  - Get(last.pre.versions[Holder].metrics, "category_accuracy", 0)
                  >= ProductionCriteria.min_accuracy_improvement
       THEN last.exit = 0 /\ Added
       ELSE last.exit = 1 /\ Post = last.pre

\* a passing run was stopped by the holder of the alias
C22_Witness ==
    /\ last.op = "promote" /\ ~last.force
    /\ MeetsAll(last.run.metrics, ProductionCriteria)
    /\ Holder # 0
    /\ last.exit = 1
    /\ Post = last.pre

\* C23: once a version holds the champion alias, no later experiment run
\* moves that alias: the run finds the incumbent and registers as challenger
\* or candidate.
C23_ChampionStays ==
    (last.op = "experiment" /\ Holders(last.pre, "champion") # {})
    => /\ Holders(Post, "champion") = Holders(last.pre, "champion")
       /\ (last.auto_gate /\ last.registered)
            => AliasesOf(Post, NewVersion) \in {{"challenger"}, {"candidate"}}

\* C24: with require_approval a run is registered exactly when registration
\* is still enabled after the gate and the answer is yes or y in any case;
\* any other answer leaves the registry unchanged; a run the gate rejected
\* (criteria or duplicate) is not prompted for.
C24_ManualApproval ==
    (last.op = "experiment" /\ last.require_approval)
    => /\ last.registered
            <=> (/\ last.gate.register_to_uc
                 /\ Lower(last.response) \in {"yes", "y"})
       /\ Lower(last.response) \notin {"yes", "y"} => Post = last.pre
       /\ (last.auto_gate /\ (~PassesCriteria \/ Duplicates # {}))
            => /\ ~Prompted(last.gate.register_to_uc, last.require_approval)
               /\ Post = last.pre

\* a run that passed the gate was registered on the answer "Y"
C24_Witness ==
    /\ GatedRun /\ last.require_approval /\ last.response = "Y"
    /\ Prompted(last.gate.register_to_uc, last.require_approval)
    /\ last.registered /\ Added

\* a run that passed the gate was cancelled at the prompt
C24_WitnessCancelled ==
    /\ GatedRun /\ last.require_approval /\ last.response = "no"
    /\ Prompted(last.gate.register_to_uc, last.require_approval)
    /\ ~last.registered /\ Post = last.pre

\* C25: with auto_gate off and registration enabled a run is registered
\* unchecked: no alias, production_ready "true" and validation_reason
\* "Production criteria not evaluated", whatever the metrics.
C25_Ungated ==
    (last.op = "experiment" /\ ~last.auto_gate /\ RegistrationAllowed)
    => /\ last.registered /\ Added
       /\ Post.versions[NewVersion].metrics = last.metrics
       /\ AliasesOf(Post, NewVersion) = {}
       /\ Post.aliases = last.pre.aliases
       /\ Post.versions[NewVersion].tags.production_ready = "true"
       /\ Post.versions[NewVersion].tags.validation_reason = NotEvaluated

\* an ungated run below the accuracy threshold, repeating a registered
\* version's metrics, was registered as production ready
C25_Witness ==
    /\ last.op = "experiment" /\ ~last.auto_gate /\ RegistrationAllowed
    /\ ~PassesCriteria /\ Duplicates # {}
    /\ Added
    /\ Post.versions[NewVersion].tags.production_ready = "true"

\* s is the beginning of t
IsPrefix(s, t) == Len(s) <= Len(t) /\ s = SubSeq(t, 1, Len(s))

\* the names of `experiments`, in order
ExperimentNames == [i \in 1..Len(experiments) |-> experiments[i].name]

C27_EndsOwnRun ==
    (result.fn = "run_experiment" /\ "end_calls" \in DOMAIN result)
    => /\ result.pc \in {"start", "block", "finally"} => result.end_calls = 0
       /\ (result.pc = "done" /\ result.entered)
            => /\ result.end_calls = (IF result.created_run THEN 1 ELSE 0)
               /\ result.created_run <=> ~RunIdGiven(call.MLFLOW_RUN_ID)
               /\ result.created_run => ~result.active
       /\ RunIdGiven(call.MLFLOW_RUN_ID)
            => /\ result.end_calls = 0
               /\ result.pc # "start" => result.active

\* a run the script created was ended although the block raised
C27_Witness ==
    /\ result.fn = "run_experiment" /\ "end_calls" \in DOMAIN result
    /\ result.pc = "done" /\ result.entered
    /\ result.created_run /\ result.raised
    /\ result.end_calls = 1 /\ result.exit = 1

\* an external run was activated by the script and left running
C27_WitnessExternal ==
    /\ result.fn = "run_experiment" /\ "end_calls" \in DOMAIN result
    /\ result.pc = "done"
    /\ RunIdGiven(call.MLFLOW_RUN_ID) /\ ~call.active_before
    /\ result.start_calls = 1 /\ result.end_calls = 0 /\ result.active

\* the versions named by the delete_model_version calls made so far, in order
VersionDeletes ==
    [i \in 1..Len(SelectSeq(result.calls, LAMBDA c : c.op = "delete_model_version"))
       |-> SelectSeq(result.calls, LAMBDA c : c.op = "delete_model_version")[i].arg]

\* C28: cleanup makes no delete call unless the answer is yes or y, and then
\* exits 0; once confirmed (and the search has answered) it calls
\* delete_model_version for every version, highest first, going on after a
\* failed delete, and calls delete_registered_model only after all of them.
C28_CleanupOrder ==
    result.fn = "cleanup"
    => /\ Lower(Strip(call.response)) \notin {"yes", "y"}
            => /\ result.calls = <<>>
               /\ result.versions = {call.found[i] : i \in 1..Len(call.found)}
               /\ result.pc = "done" => result.exit = 0
       /\ \A i, j \in 1..Len(VersionDeletes) :
              i < j => VersionDeletes[i] > VersionDeletes[j]
       /\ \A i \in 1..Len(result.calls) :
              result.calls[i].op = "delete_registered_model"
              => /\ {result.calls[j].arg : j \in 1..(i - 1)} = 1..Len(call.found)
                 /\ \A j \in 1..(i - 1) : result.calls[j].op = "delete_model_version"
       /\ (result.pc \in {"experiments", "done"} /\ result.calls # <<>>
            /\ ~call.search_raises)
            => {VersionDeletes[i] : i \in 1..Len(VersionDeletes)} = 1..Len(call.found)

\* the delete of version 3 failed; versions 2 and 1 and the model were
\* deleted all the same
C28_Witness ==
    /\ result.fn = "cleanup" /\ result.pc = "done"
    /\ call.found = <<2, 3, 1>>
    /\ call.failing = {3}
    /\ VersionDeletes = <<3, 2, 1>>
    /\ result.versions = {3}
    /\ result.calls[4].op = "delete_registered_model"

\* the versions of news_classifier that hold the champion alias
Champions == Holders(registry[ExperimentModel], "champion")

\* C29: run_daily_inference loads only the version aliased champion; when
\* none can be loaded or predict raises it exits 1 and writes no file; a file
\* is written only after predictions were made with the loaded champion
\* version, and its metadata names that version.
C29_ServesChampion ==
    result.fn = "run_daily_inference"
    => /\ result.loaded # 0 => Champions = {result.loaded}
       /\ (result.pc = "done"
            /\ (Champions = {} \/ call.load_raises
                \/ (~call.data_raises /\ call.predict_raises)))
            => /\ result.exit = 1
               /\ ~result.file.written
       /\ result.file.written
            => /\ result.predictions = call.articles
               /\ ~call.predict_raises
               /\ Champions = {result.file.metadata.model_version}
               /\ result.file.metadata.model_version = result.loaded
               /\ result.file.metadata.model_alias = "champion"
       /\ (result.pc = "done" /\ result.exit = 0) => result.file.written

\* predictions were saved for a champion that is not the first version
C29_Witness ==
    /\ result.fn = "run_daily_inference"
    /\ result.file.written
    /\ result.file.metadata.model_version = 2
    /\ Champions = {2}
    /\ result.file.metadata.num_predictions = 2

\* predict failed on a loaded champion: exit 1, no file
C29_WitnessPredictFails ==
    /\ result.fn = "run_daily_inference"
    /\ result.pc = "done" /\ result.loaded # 0 /\ call.predict_raises
    /\ ~call.data_raises
    /\ result.exit = 1 /\ ~result.file.written

\* invocation p registered its version under `alias` and has finished
Wrote(p, alias) ==
    /\ result[p].pc = "done"
    /\ result[p].version # 0
    /\ result[p].gate.model_alias = alias

\* p and q both read the registry before either wrote its alias, both
\* decided 'champion', and both have written
Raced(p, q) ==
    /\ p # q
    /\ Wrote(p, "champion") /\ Wrote(q, "champion")
    /\ result[p].read_at < result[q].wrote_at
    /\ result[q].read_at < result[p].wrote_at

\* the invocations that wrote 'champion' after every other one that did
LatestChampion ==
    {p \in Invocations :
        /\ Wrote(p, "champion")
        /\ \A q \in Invocations :
              Wrote(q, "champion") => result[q].wrote_at <= result[p].wrote_at}

\* C21 as stated: after two invocations that both read the registry before
\* either wrote its alias, more than one entry is marked champion.
C21_TwoChampions ==
    call.fn = "run_experiment"
    => \A p, q \in Invocations :
          Raced(p, q)
          => Cardinality(Holders(registry[ExperimentModel], "champion")) > 1

\* C21 as amended: the registry never holds the champion alias on more than
\* one entry; after two invocations that both read the registry before
\* either wrote its alias and both registered as 'champion', exactly one
\* entry holds the alias, the one whose alias was written last, and the
\* entry of the earlier writer holds no alias at all.
C21_LastWriterWins ==
    call.fn = "run_experiment"
    => /\ Cardinality(Holders(registry[ExperimentModel], "champion")) <= 1
       /\ \A p, q \in Invocations :
             Raced(p, q)
             => /\ Holders(registry[ExperimentModel], "champion")
                     = {result[w].version : w \in LatestChampion}
                /\ result[p].wrote_at < result[q].wrote_at
                     => AliasesOf(registry[ExperimentModel], result[p].version) = {}

\* invocation c's entry holds 'challenger' though it does not beat the
\* champion the alias names now
StaleChallenger(c) ==
    /\ Wrote(c, "challenger")
    /\ Holders(registry[ExperimentModel], "challenger") = {result[c].version}
    /\ \E h \in Holders(registry[ExperimentModel], "champion") :
          /\ h > result[c].version
          /\ ~evaluate_champion_criteria(
                 Get(result[c].metrics, "category_accuracy", 0),
                 Get(registry[ExperimentModel].versions[h].metrics,
                     "category_accuracy", 0),
                 ProductionCriteria).passes

\* two invocations raced for 'champion', the later writer holds the alias,
\* the earlier writer's entry holds none, and a third invocation that read
\* in between left a challenger that does not beat the final champion
C21_Witness ==
    /\ call.fn = "run_experiment"
    /\ \E p, q, c \in Invocations :
          /\ Raced(p, q)
          /\ result[p].wrote_at < result[q].wrote_at
          /\ Holders(registry[ExperimentModel], "champion") = {result[q].version}
          /\ AliasesOf(registry[ExperimentModel], result[p].version) = {}
          /\ StaleChallenger(c)

\* no member of the list occurs in the text, in any case
NamesNone(text, known) ==
    \A i \in 1..Len(known) : ~Contains(ToLower(text), ToLower(known[i]))

\* what _parse_response holds at every point of the loop
C30_Parsed ==
    result.fn = "_parse_response"
    => /\ result.parsed.category \in Members(NEWS_CATEGORIES) \cup {"Unknown"}
       /\ result.parsed.sentiment \in Members(SENTIMENT_CATEGORIES) \cup {"Unknown"}
       /\ result.parsed.raw_response = call.response

\* a line that names no category leaves the category as it was, and a line
\* that names no sentiment leaves the sentiment as it was
C30_Kept ==
    (result.fn = "_parse_response" /\ result.pc = "loop"
     /\ result.line <= Len(result.lines))
    => /\ NamesNone(result.lines[result.line], NEWS_CATEGORIES)
            => result'.parsed.category = result.parsed.category
       /\ NamesNone(result.lines[result.line], SENTIMENT_CATEGORIES)
            => result'.parsed.sentiment = result.parsed.sentiment

\* C30: for every response _parse_response returns a category that is in
\* NEWS_CATEGORIES or "Unknown", a sentiment that is in SENTIMENT_CATEGORIES
\* or "Unknown", and raw_response equal to the input; a later line with an
\* unrecognised value never replaces a value recognised on an earlier line.
C30_ParseResponse == [](C30_Parsed) /\ [][C30_Kept]_vars

\* "Category: Sports" was followed by "Category: Cooking": Sports was kept
C30_Witness ==
    /\ result.fn = "_parse_response" /\ result.pc = "done"
    /\ call.response = "Category: Sports\nCategory: Cooking"
    /\ Len(result.lines) = 2
    /\ result.parsed.category = "Sports"
    /\ result.parsed.sentiment = "Unknown"

RequiredTags == {"provider", "model", "category_accuracy", "category_f1",
                 "sentiment_accuracy", "production_ready", "validation_reason"}

\* C20: every version in the registry, whichever workflow registered it,
\* carries the tags provider, model, category_accuracy, category_f1,
\* sentiment_accuracy, production_ready ("true" or "false") and
\* validation_reason, the last at most 250 characters long.
C20_RequiredTags ==
    \A n \in ModelNames :
        \A v \in 1..Len(registry[n].versions) :
            /\ RequiredTags \subseteq DOMAIN registry[n].versions[v].tags
            /\ registry[n].versions[v].tags.production_ready \in {"true", "false"}
            /\ Len(registry[n].versions[v].tags.validation_reason) <= 250

====
